---- MODULE Spec2Model ----
(***************************************************************************)
(* Model of the pdfcraft document-to-PDF workers: the four layout          *)
(* converters that run inside Pyodide (spreadsheet, presentation,          *)
(* word-processor, rich text), the EPUB page renderer, and the worker      *)
(* message protocol with its lazy initialisation.                          *)
(*                                                                         *)
(* Lengths are binary64 floats, computed operation by operation as Python  *)
(* computes them.  Texts are sequences of code points.  The PDF backend is *)
(* modelled by the log of the calls made to it: new_page, insert_text,     *)
(* insert_textbox, insert_image.                                           *)
(***************************************************************************)
EXTENDS Integers, Sequences, FiniteSets, TLC

\* ------------------------------------------------------------------------
\* Bounds of the model
\* ------------------------------------------------------------------------
MaxUnits == 2
MaxRows == 30
MaxMsgs == 2

\* ------------------------------------------------------------------------
\* Lengths are Python floats (IEEE 754 binary64).  A float is <<s, hi, lo, e>>:
\* the number s * (hi * 2^27 + lo) * 2^e with sign s in {-1, 0, 1} and, for
\* s # 0, a mantissa of exactly 53 bits (2^25 <= hi < 2^26, 0 <= lo < 2^27);
\* zero is <<0, 0, 0, 0>>.  Every operation rounds the exact result once to
\* the nearest float, ties to even.  The exponent range is not bounded: the
\* lengths of a page stay far from overflow and underflow.
\* ------------------------------------------------------------------------
P25 == 2 ^ 25
P26 == 2 ^ 26
P27 == 2 ^ 27
P30 == 2 ^ 30
Zero == <<0, 0, 0, 0>>

Abs(n) == IF n < 0 THEN -n ELSE n
Max(a, b) == IF a > b THEN a ELSE b
Min(a, b) == IF a < b THEN a ELSE b

\* The last step of an operation: a mantissa hi * 2^27 + lo with lo <= 2^27
FPack(s, hi, lo, e) ==
  IF lo < P27 THEN <<s, hi, lo, e>>
  ELSE IF hi + 1 < P26 THEN <<s, hi + 1, 0, e>>
  ELSE <<s, P25, 0, e + 1>>

\* Rounding of s * (h * 2^30 + l) * 2^e, h being the 26 high bits of the
\* mantissa and l its 27 low bits followed by three more bits of the exact
\* result (the last of them set where any lower bit is): up where the three
\* bits are above the half, or are the half and the mantissa is odd
FRoundUp(l) == l % 8 > 4 \/ (l % 8 = 4 /\ (l \div 8) % 2 = 1)
FFinish(s, h, l, e) == FPack(s, h, (l \div 8) + (IF FRoundUp(l) THEN 1 ELSE 0), e + 3)

\* l with its lowest bit set where bits were dropped below it
Jam(l, dropped) == IF dropped /\ l % 2 = 0 THEN l + 1 ELSE l

\* <<h, l>> of (h * 2^30 + l) \div 2^d, dropped bits kept in the lowest bit
ShiftR(h, l, d) ==
  IF d = 0 THEN <<h, l>>
  ELSE IF d < 30
  THEN <<h \div 2 ^ d, Jam((l \div 2 ^ d) + (h % 2 ^ d) * 2 ^ (30 - d), l % 2 ^ d # 0)>>
  ELSE IF d < 56
  THEN <<0, Jam(h \div 2 ^ (d - 30), l # 0 \/ h % 2 ^ (d - 30) # 0)>>
  ELSE <<0, 1>>

\* v = <<s, h, l, e>>, the number s * (h * 2^30 + l) * 2^e with h < 2^27,
\* moved to an h of 26 bits: down by one bit where h has 27, up by 26 bits
\* where h is 0, and then up by 16, 8, 4, 2 and 1 bits where h has as many
\* leading zeros
NStep(v, k) ==
  IF v[2] < 2 ^ (26 - k)
  THEN <<v[1], v[2] * 2 ^ k + (v[3] \div 2 ^ (30 - k)), (v[3] % 2 ^ (30 - k)) * 2 ^ k,
         v[4] - k>>
  ELSE v
NTop(v) ==
  IF v[2] >= P26
  THEN <<v[1], v[2] \div 2, Jam((v[3] \div 2) + (v[2] % 2) * 2 ^ 29, v[3] % 2 = 1),
         v[4] + 1>>
  ELSE IF v[2] = 0 THEN <<v[1], v[3] \div 16, (v[3] % 16) * P26, v[4] - 26>>
  ELSE v
RECURSIVE NUp(_, _)
NUp(v, k) == IF k = 0 THEN v ELSE NUp(NStep(v, k), k \div 2)
FFinishV(v) == FFinish(v[1], v[2], v[3], v[4])

\* The float nearest to the number v # 0
FRound(v) == FFinishV(NUp(NTop(v), 16))

\* float(n) of an int n, tabulated for the small ints: the mantissa of n
\* moved up or down to 53 bits
RECURSIVE IntNorm(_, _, _, _)
IntNorm(s, h, l, e) ==
  IF h >= P26 THEN IntNorm(s, h \div 2, (l \div 2) + (h % 2) * P26, e + 1)
  ELSE IF h < P25 THEN IntNorm(s, h * 2, l, e - 1)
  ELSE <<s, h, l, e>>
FromInt(n) ==
  IF n = 0 THEN Zero ELSE IntNorm(IF n < 0 THEN -1 ELSE 1, Abs(n), 0, -27)
SmallFloats == [n \in 0..1023 |-> FromInt(n)]
R(n) == IF n >= 0 /\ n <= 1023 THEN SmallFloats[n] ELSE FromInt(n)

RNeg(a) == <<-a[1], a[2], a[3], a[4]>>

\* x - y of two magnitudes <<h, l>>, x being the larger
FDiff(x, y) ==
  <<x[1] - y[1] - (IF x[2] < y[2] THEN 1 ELSE 0),
    x[2] - y[2] + (IF x[2] < y[2] THEN P30 ELSE 0)>>

\* Whether the magnitude x = <<h, l>> is below y
FBelow(x, y) == x[1] < y[1] \/ (x[1] = y[1] /\ x[2] < y[2])

\* The exact a + b for a[4] >= b[4], x being the mantissa of a with three
\* more bits and y the one of b moved to a's exponent
FSumOf(s, x, y, e) == <<s, x[1] + y[1] + ((x[2] + y[2]) \div P30), (x[2] + y[2]) % P30, e>>
FDiffOf(s, d, e) == <<s, d[1], d[2], e>>
FAddExt(a, b, x, y) ==
  IF a[1] = b[1] THEN FSumOf(a[1], x, y, a[4] - 3)
  ELSE IF FBelow(x, y) THEN FDiffOf(b[1], FDiff(y, x), a[4] - 3)
  ELSE FDiffOf(a[1], FDiff(x, y), a[4] - 3)
FAddRound(v) == IF v[2] = 0 /\ v[3] = 0 THEN Zero ELSE FRound(v)
FAddOrd(a, b) ==
  FAddRound(FAddExt(a, b, <<a[2], a[3] * 8>>, ShiftR(b[2], b[3] * 8, a[4] - b[4])))

\* a + b, a - b
RAdd(a, b) ==
  IF a[1] = 0 THEN b
  ELSE IF b[1] = 0 THEN a
  ELSE FAddOrd(IF a[4] >= b[4] THEN a ELSE b, IF a[4] >= b[4] THEN b ELSE a)
RSub(a, b) == RAdd(a, RNeg(b))

\* -1, 0 or 1 as a is below, equal to or above b
FCmpMag(a, b) ==
  IF a[4] # b[4] THEN (IF a[4] < b[4] THEN -1 ELSE 1)
  ELSE IF a[2] # b[2] THEN (IF a[2] < b[2] THEN -1 ELSE 1)
  ELSE IF a[3] # b[3] THEN (IF a[3] < b[3] THEN -1 ELSE 1)
  ELSE 0
RCmp(a, b) ==
  IF a[1] # b[1] THEN (IF a[1] < b[1] THEN -1 ELSE 1)
  ELSE IF a[1] = 0 THEN 0
  ELSE a[1] * FCmpMag(a, b)

RLt(a, b) == RCmp(a, b) < 0
RLe(a, b) == RCmp(a, b) <= 0
RGt(a, b) == RCmp(a, b) > 0
RMin(a, b) == IF RLt(b, a) THEN b ELSE a
RMax(a, b) == IF RGt(b, a) THEN b ELSE a
RAbs(a) == <<Abs(a[1]), a[2], a[3], a[4]>>

\* int(a): the integer part of a float below 2^31
RInt(a) ==
  IF a[1] = 0 \/ a[4] <= -53 THEN 0
  ELSE IF a[4] <= -27 THEN a[1] * (a[2] \div 2 ^ (-27 - a[4]))
  ELSE IF a[4] <= 0 THEN a[1] * (a[2] * 2 ^ (27 + a[4]) + (a[3] \div 2 ^ (-a[4])))
  ELSE a[1] * (a[2] * P27 + a[3]) * 2 ^ a[4]

\* Products are computed on mantissas written as four digits in base 2^14,
\* lowest first
Base == 2 ^ 14
ToLimbs(a) ==
  <<a[3] % Base, (a[3] \div Base) + (a[2] % 2) * 2 ^ 13, (a[2] \div 2) % Base,
    a[2] \div 2 ^ 15>>

\* a * b: the products of the digits by place, their carries, and the 53
\* high bits of the 105 or 106 bits of the product
MulCols(x, y) ==
  <<x[1] * y[1],
    x[1] * y[2] + x[2] * y[1],
    x[1] * y[3] + x[2] * y[2] + x[3] * y[1],
    x[1] * y[4] + x[2] * y[3] + x[3] * y[2] + x[4] * y[1],
    x[2] * y[4] + x[3] * y[3] + x[4] * y[2],
    x[3] * y[4] + x[4] * y[3],
    x[4] * y[4]>>
RECURSIVE MulCarry(_, _, _)
MulCarry(c, k, carry) ==
  IF k > 7 THEN <<carry>>
  ELSE <<(c[k] + carry) % Base>> \o MulCarry(c, k + 1, (c[k] + carry) \div Base)
MulRound(s, p, e, t) ==
  FFinish(s,
          (p[6] \div 2 ^ (t - 1)) + p[7] * 2 ^ (15 - t) + p[8] * 2 ^ (29 - t),
          ((p[4] \div 2 ^ t) + p[5] * 2 ^ (14 - t) + (p[6] % 2 ^ (t - 1)) * 2 ^ (28 - t)) * 8
            + ((p[4] \div 2 ^ (t - 1)) % 2) * 4
            + (IF p[4] % 2 ^ (t - 1) # 0 \/ p[1] # 0 \/ p[2] # 0 \/ p[3] # 0
               THEN 1 ELSE 0),
          e + 42 + t - 3)
MulDigits(s, p, e) == MulRound(s, p, e, IF p[8] >= 2 ^ 7 THEN 11 ELSE 10)
RMul(a, b) ==
  IF a[1] = 0 \/ b[1] = 0 THEN Zero
  ELSE MulDigits(a[1] * b[1], MulCarry(MulCols(ToLimbs(a), ToLimbs(b)), 1, 0),
                 a[4] + b[4])

\* a / b for a divisor b whose mantissa is a number d of 14 bits followed
\* by zeros: the quotient of the mantissa of a, times 2^16, by d has 55 or
\* 56 bits; it is found from the highest digit down, r being the remainder
\* so far and q the digits
RECURSIVE DivDigits(_, _, _, _, _)
DivDigits(c, d, k, r, q) ==
  IF k > 4 THEN <<q, r>>
  ELSE DivDigits(c, d, k + 1, (r * Base + c[k]) % d, Append(q, (r * Base + c[k]) \div d))
DivChunks(a) ==
  <<(a[3] \div 2 ^ 26) + (a[2] % 2 ^ 13) * 2, (a[3] \div 2 ^ 12) % Base,
    (a[3] % 2 ^ 12) * 4, 0>>
DivPack(s, q, r, e) ==
  <<s, (q[2] \div 4) + q[1] * 2 ^ 12,
    Jam(q[4] + q[3] * Base + (q[2] % 4) * 2 ^ 28, r # 0), e>>
DivSmallBy(s, qr, e) == DivPack(s, qr[1], qr[2], e)
DivSmall(a, b, d) ==
  DivSmallBy(a[1] * b[1], DivDigits(DivChunks(a), d, 1, a[2] \div 2 ^ 13, <<>>),
             a[4] - b[4] - 55)

\* a / b for any divisor b # 0: the 56 bits of the quotient of the mantissa
\* of a, times 2^55, by the one of b, found bit by bit from the highest down.
\* t = <<rh, rl, qh, ql>> holds the remainder so far, rh * 2^27 + rl, and the
\* bits found, qh * 2^30 + ql.
DivShift(rh, rl, t, bit) ==
  <<rh * 2 + (rl \div P26), (rl % P26) * 2,
    t[3] * 2 + (t[4] \div 2 ^ 29), (t[4] % 2 ^ 29) * 2 + bit>>
RECURSIVE DivBits(_, _, _)
DivBits(t, b, n) ==
  IF n = 0 THEN t
  ELSE IF t[1] > b[2] \/ (t[1] = b[2] /\ t[2] >= b[3])
  THEN DivBits(DivShift(t[1] - b[2] - (IF t[2] < b[3] THEN 1 ELSE 0),
                        t[2] - b[3] + (IF t[2] < b[3] THEN P27 ELSE 0), t, 1),
               b, n - 1)
  ELSE DivBits(DivShift(t[1], t[2], t, 0), b, n - 1)
RECURSIVE DivRun(_, _, _)
DivRun(t, b, k) == IF k = 0 THEN t ELSE DivRun(DivBits(t, b, 14), b, k - 1)
DivLongBy(s, t, e) == <<s, t[3], Jam(t[4], t[1] # 0 \/ t[2] # 0), e>>
DivLong(a, b) ==
  DivLongBy(a[1] * b[1], DivRun(<<a[2], a[3], 0, 0>>, b, 4), a[4] - b[4] - 55)

RDiv(a, b) ==
  IF a[1] = 0 THEN Zero
  ELSE FRound(IF b[3] = 0 /\ b[2] % 2 ^ 12 = 0
              THEN DivSmall(a, b, b[2] \div 2 ^ 12)
              ELSE DivLong(a, b))

\* n / d of two ints
RNorm(n, d) == RDiv(FromInt(n), FromInt(d))

\* The float literals 1.4, 1.5 and 0.5
Float14 == RNorm(14, 10)
Float15 == RNorm(15, 10)
Float05 == RNorm(5, 10)

\* ------------------------------------------------------------------------
\* Texts: sequences of code points
\* ------------------------------------------------------------------------
ChA == 65
ChDash == 45
ChPlus == 43
ChUnderscore == 95
ChSpace == 32
ChNewline == 10
ChWide == 20013
ChZero == 48

RECURSIVE Digits(_)
Digits(n) == IF n < 10 THEN <<ChZero + n>> ELSE Digits(n \div 10) \o <<ChZero + (n % 10)>>

\* Python str(n) / f"{n}" of an integer
Str(n) == IF n < 0 THEN <<ChDash>> \o Digits(-n) ELSE Digits(n)

\* The code points of the digit zero of every set of Unicode decimal digits
\* (category Nd, Unicode 15.1): the digits that \d matches and int() reads
DigitZeros ==
  {48, 1632, 1776, 1984, 2406, 2534, 2662, 2790, 2918, 3046, 3174, 3302, 3430,
   3558, 3664, 3792, 3872, 4160, 4240, 6112, 6160, 6470, 6608, 6784, 6800, 6992,
   7088, 7232, 7248, 42528, 43216, 43264, 43472, 43504, 43600, 44016, 65296,
   66720, 68912, 69734, 69872, 69942, 70096, 70384, 70736, 70864, 71248, 71360,
   71472, 71904, 72016, 72784, 73040, 73120, 73552, 92768, 92864, 93008, 120782,
   120792, 120802, 120812, 120822, 123200, 123632, 124144, 125264, 130032}

IsDigit(c) == \E z \in DigitZeros : c >= z /\ c <= z + 9

\* The value of a decimal digit
DigitVal(c) == c - (CHOOSE z \in DigitZeros : c >= z /\ c <= z + 9)

RECURSIVE DigitsValue(_, _)
DigitsValue(s, acc) ==
  IF s = <<>> THEN acc ELSE DigitsValue(Tail(s), acc * 10 + DigitVal(Head(s)))

\* The characters for which str.isspace() holds: the blanks of str.split()
\* and str.strip()
Whitespace ==
  {9, 10, 11, 12, 13, 28, 29, 30, 31, 32, 133, 160, 5760, 8232, 8233, 8239, 8287,
   12288} \cup (8192..8202)

IsSpace(c) == c \in Whitespace

\* The text without the characters of the set blanks at its start, at its
\* end, and at both
RECURSIVE LStripOf(_, _)
LStripOf(text, blanks) ==
  IF text # <<>> /\ Head(text) \in blanks THEN LStripOf(Tail(text), blanks) ELSE text

RECURSIVE RStripOf(_, _)
RStripOf(text, blanks) ==
  IF text # <<>> /\ text[Len(text)] \in blanks
  THEN RStripOf(SubSeq(text, 1, Len(text) - 1), blanks) ELSE text

\* text.strip()
LStrip(text) == LStripOf(text, Whitespace)
RStrip(text) == RStripOf(text, Whitespace)
Strip(text) == RStrip(LStrip(text))

\* The blanks int() drops around a number: those of str.isspace() except the
\* four separators U+001C to U+001F
IntBlanks == Whitespace \ (28..31)

\* Python int(text): surrounding blanks are dropped, then an optional
\* sign and decimal digits with single underscores between them are read.
\* [ok |-> FALSE] stands for ValueError.
ParseInt(s) ==
  LET t    == RStripOf(LStripOf(s, IntBlanks), IntBlanks)
      sign == t # <<>> /\ Head(t) \in {ChDash, ChPlus}
      body == IF sign THEN Tail(t) ELSE t
      n    == Len(body)
      wellformed ==
        /\ n > 0
        /\ \A i \in 1..n :
             \/ IsDigit(body[i])
             \/ /\ body[i] = ChUnderscore /\ 1 < i /\ i < n
                /\ IsDigit(body[i - 1]) /\ IsDigit(body[i + 1])
      val  == DigitsValue(SelectSeq(body, IsDigit), 0)
  IN  IF wellformed
      THEN [ok |-> TRUE, val |-> IF Head(t) = ChDash THEN -val ELSE val]
      ELSE [ok |-> FALSE, val |-> 0]

RECURSIVE Rep(_, _)
Rep(c, n) == IF n = 0 THEN <<>> ELSE <<c>> \o Rep(c, n - 1)

SheetWord == <<83, 104, 101, 101, 116, 32>>
ErrorPrefix == <<69, 114, 114, 111, 114, 58, 32>>

\* ------------------------------------------------------------------------
\* The backend log
\* ------------------------------------------------------------------------
NoPos == R(0)

\* One call to the PDF backend.  kind: "page" (new_page), "text"
\* (insert_text at (x0, y0)), "textbox" (insert_textbox in the rect),
\* "image" (insert_image in the rect).  page is the page the call is made
\* on; unit, row, col locate the source element (0 where there is none).
Cmd(kind, page, unit, row, col, x0, y0, x1, y1, text, font, color) ==
  [kind |-> kind, page |-> page, unit |-> unit, row |-> row, col |-> col,
   x0 |-> x0, y0 |-> y0, x1 |-> x1, y1 |-> y1, text |-> text,
   font |-> font, color |-> color]

\* The state of one conversion call: the document (pages, cmds), the
\* current page handle, the layout cursor and whether the call has raised.
EmptyPdf ==
  [pages |-> 0, cmds |-> <<>>, page |-> 0, y |-> NoPos, ySet |-> FALSE,
   raised |-> FALSE, rcells |-> <<>>]

\* pdf.new_page(): appends a page and returns its handle
NewPage(st, unit) ==
  [st EXCEPT !.pages = st.pages + 1, !.page = st.pages + 1,
             !.cmds = Append(st.cmds,
                Cmd("page", st.pages + 1, unit, 0, 0, NoPos, NoPos, NoPos, NoPos,
                    <<>>, "none", "none"))]

InsertText(st, unit, row, x, y, text, font, color) ==
  [st EXCEPT !.cmds = Append(st.cmds,
      Cmd("text", st.page, unit, row, 0, x, y, x, y, text, font, color))]

InsertTextbox(st, unit, row, col, x0, y0, x1, y1, text, font) ==
  [st EXCEPT !.cmds = Append(st.cmds,
      Cmd("textbox", st.page, unit, row, col, x0, y0, x1, y1, text, font, "black"))]

InsertImage(st, unit, row, col, x0, y0, x1, y1) ==
  [st EXCEPT !.cmds = Append(st.cmds,
      Cmd("image", st.page, unit, row, col, x0, y0, x1, y1, <<>>, "none", "none"))]

FontName(staged) == IF staged THEN "custom" ELSE "helv"


\* ------------------------------------------------------------------------
\* Spreadsheet converter (convert_excel_to_pdf)
\* ------------------------------------------------------------------------
xl_page_width == 842
xl_page_height == 595
xl_margin == 40
xl_fontsize == 9
cell_padding == 4
row_height == xl_fontsize + cell_padding * 2
xl_header_gap == 20
xl_sample_rows == 50
xl_min_width == 40
xl_max_width == 200

\* A <c> element: t is its t attribute, v the text of its <v> child (<<>>
\* when the child is missing or empty), is the joined text of its <is> child.
Cell(t, v, is) == [t |-> t, v |-> v, is |-> is]

\* The text of one cell (val): a shared-string reference, a raw value or
\* an inline string.  shared_strings[idx] follows Python indexing: a
\* negative idx counts from the end and raises IndexError below -len, which
\* the bare except turns into the raw text, as it does for a ValueError of
\* int().
ExcelCellVal(c, shared_strings) ==
  IF c.v # <<>>
  THEN IF c.t = "s"
       THEN LET p == ParseInt(c.v)
                n == Len(shared_strings)
            IN  IF ~p.ok THEN c.v
                ELSE IF p.val < n
                     THEN IF p.val >= 0 THEN shared_strings[p.val + 1]
                          ELSE IF -p.val <= n THEN shared_strings[n + p.val + 1]
                          ELSE c.v
                     ELSE <<>>
       ELSE c.v
  ELSE c.is

\* r_cells of one <row> element
ExcelRowCells(row, shared_strings) ==
  [i \in 1..Len(row) |-> ExcelCellVal(row[i], shared_strings)]

\* any(r_cells)
AnyCell(r_cells) == \E i \in 1..Len(r_cells) : r_cells[i] # <<>>

RECURSIVE KeepRows(_)
KeepRows(all) ==
  IF all = <<>> THEN <<>>
  ELSE IF AnyCell(Head(all)) THEN <<Head(all)>> \o KeepRows(Tail(all))
       ELSE KeepRows(Tail(all))


RECURSIVE XlTextWidth(_)
XlTextWidth(text) ==
  IF text = <<>> THEN 0
  ELSE (IF Head(text) > 255 THEN 10 ELSE 5) + XlTextWidth(Tail(text))

RECURSIVE MaxLen(_)
MaxLen(rows) == IF rows = <<>> THEN 0 ELSE Max(Len(Head(rows)), MaxLen(Tail(rows)))

\* The loop over the sampled rows for column i, from row k on: w is the
\* column's entry of col_widths so far
RECURSIVE ColMaxWidth(_, _, _, _)
ColMaxWidth(rows, i, k, w) ==
  IF k > Len(rows) \/ k > xl_sample_rows THEN w
  ELSE LET cw == IF i <= Len(rows[k]) THEN XlTextWidth(rows[k][i]) ELSE 0
       IN  IF cw > w THEN ColMaxWidth(rows, i, k + 1, cw)
           ELSE ColMaxWidth(rows, i, k + 1, w)

\* A faulty sampling that looks at every row
RECURSIVE ColMaxWidthAll(_, _, _, _)
ColMaxWidthAll(rows, i, k, w) ==
  IF k > Len(rows) THEN w
  ELSE LET cw == IF i <= Len(rows[k]) THEN XlTextWidth(rows[k][i]) ELSE 0
       IN  IF cw > w THEN ColMaxWidthAll(rows, i, k + 1, cw)
           ELSE ColMaxWidthAll(rows, i, k + 1, w)

ColWidthsAllRows(rows) ==
  [i \in 1..MaxLen(rows) |->
     Max(Min(ColMaxWidthAll(rows, i, 1, 0), xl_max_width), xl_min_width)]

\* col_widths of one worksheet
ColWidths(rows) ==
  [i \in 1..MaxLen(rows) |->
     Max(Min(ColMaxWidth(rows, i, 1, 0), xl_max_width), xl_min_width)]

\* A faulty cell loop in which an empty cell does not advance the offset
RECURSIVE ExcelRenderCellsPacked(_, _, _, _, _, _, _, _)
ExcelRenderCellsPacked(st, row_data, col_widths, i, x, unit, rowNo, opt) ==
  IF st.raised \/ i > Len(row_data) \/ i > Len(col_widths) THEN st
  ELSE LET w == col_widths[i]
           y == st.y
       IN  IF row_data[i] = <<>>
           THEN ExcelRenderCellsPacked(st, row_data, col_widths, i + 1, x, unit,
                                       rowNo, opt)
           ELSE ExcelRenderCellsPacked(
                  IF opt.failBox THEN [st EXCEPT !.raised = TRUE]
                  ELSE InsertTextbox(st, unit, rowNo, i,
                         R(x + 2), RAdd(y, R(2)), R(x + w - 2),
                         RAdd(y, R(row_height - 1)), row_data[i], opt.font),
                  row_data, col_widths, i + 1, x + w, unit, rowNo, opt)

\* The cells of one row, from cell i on, x being the running column offset.
\* failBox: the backend raises on the unit's first insert_textbox call.
RECURSIVE ExcelRenderCells(_, _, _, _, _, _, _, _)
ExcelRenderCells(st, row_data, col_widths, i, x, unit, rowNo, opt) ==
  IF st.raised \/ i > Len(row_data) \/ i > Len(col_widths) THEN st
  ELSE LET w  == col_widths[i]
           y  == st.y
           s1 == IF row_data[i] = <<>> THEN st
                 ELSE IF opt.failBox THEN [st EXCEPT !.raised = TRUE]
                 ELSE InsertTextbox(st, unit, rowNo, i,
                        R(x + 2), RAdd(y, R(2)), R(x + w - 2),
                        RAdd(y, R(row_height - 1)), row_data[i], opt.font)
       IN  ExcelRenderCells(s1, row_data, col_widths, i + 1, x + w, unit, rowNo, opt)

\* A faulty page-break decision that starts a page before every row
ExcelRowBreakAlways(st, unit) == [NewPage(st, unit) EXCEPT !.y = R(xl_margin)]

\* The page-break decision taken before a row
ExcelRowBreak(st, unit) ==
  IF RGt(RAdd(st.y, R(row_height)), R(xl_page_height - xl_margin))
  THEN [NewPage(st, unit) EXCEPT !.y = R(xl_margin)]
  ELSE st

\* "y_position += row_height", unless a cell raised
ExcelRowEnd(s2) == IF s2.raised THEN s2 ELSE [s2 EXCEPT !.y = RAdd(s2.y, R(row_height))]

\* A faulty row layout: the page-break decision is taken after the first cell
ExcelRenderRowSplit(st, row_data, col_widths, unit, rowNo, opt) ==
  ExcelRowEnd(
    ExcelRenderCells(
      ExcelRowBreak(ExcelRenderCells(st, SubSeq(row_data, 1, 1), col_widths, 1,
                                     xl_margin, unit, rowNo, opt),
                    unit),
      row_data, col_widths, 2,
      xl_margin + (IF col_widths = <<>> THEN 0 ELSE col_widths[1]), unit, rowNo, opt))

\* One iteration of "for row_data in rows"
ExcelRenderRow(st, row_data, col_widths, unit, rowNo, opt) ==
  ExcelRowEnd(ExcelRenderCells(ExcelRowBreak(st, unit), row_data, col_widths, 1,
                               xl_margin, unit, rowNo, opt))

RECURSIVE ExcelRenderRows(_, _, _, _, _, _)
ExcelRenderRows(st, rows, col_widths, k, unit, opt) ==
  IF st.raised \/ k > Len(rows) THEN st
  ELSE ExcelRenderRows(ExcelRenderRow(st, rows[k], col_widths, unit, k, opt),
                       rows, col_widths, k + 1, unit, opt)

\* The except clause of a worksheet: the marker goes to (margin, y_position)
\* on the current page in the backend's default font.  y_position is a local
\* of the call that is first bound after the first header was drawn: when it
\* is still unbound the handler itself raises and the call fails.
ExcelHandler(st, unit, msg) ==
  IF ~st.ySet THEN st
  ELSE InsertText([st EXCEPT !.raised = FALSE], unit, 0, R(xl_margin), st.y,
                  ErrorPrefix \o msg, "helv", "red")

\* The end of the try statement of a worksheet, body being the state its
\* try block left
ExcelSheetEnd(body, unit, msg) ==
  IF body.raised THEN ExcelHandler(body, unit, msg) ELSE body

\* The body of "for sheet_idx, (sheet_num, sheet_path) in enumerate(sheet_files)".
\* sheet.fail names the place where a library call raises: "header" (the
\* header insert_text), "parse" (reading or parsing the part), "box" (the
\* first insert_textbox), or "none".
ExcelSheet(st, sheet, sheet_idx, shared_strings, staged) ==
  LET unit == sheet_idx + 1
      opt  == [font |-> FontName(staged), failBox |-> sheet.fail = "box"]
      s0   == NewPage(st, unit)
      s1   == InsertText(s0, unit, 0, R(xl_margin), R(xl_margin),
                         SheetWord \o Str(sheet_idx + 1), opt.font, "black")
      s2   == [s1 EXCEPT !.y = R(xl_margin + xl_header_gap), !.ySet = TRUE]
      all  == [k \in 1..Len(sheet.rows) |-> ExcelRowCells(sheet.rows[k], shared_strings)]
      rows == KeepRows(all)
      s3   == [s2 EXCEPT !.rcells = all]
  IN  ExcelSheetEnd(
        IF sheet.fail = "header" THEN [s0 EXCEPT !.raised = TRUE]
        ELSE IF sheet.fail = "parse" THEN [s2 EXCEPT !.raised = TRUE]
        ELSE IF rows = <<>> THEN s3
        ELSE ExcelRenderRows(s3, rows, ColWidths(rows), 1, unit, opt),
        unit, sheet.msg)

\* "if len(pdf) == 0: pdf.new_page()" (also the presentation's)
EnsureOnePage(st) == IF st.pages = 0 THEN NewPage(st, 0) ELSE st


\* ------------------------------------------------------------------------
\* Presentation converter (convert_pptx_to_pdf)
\* ------------------------------------------------------------------------
pp_page_width == 842
pp_page_height == 595
pp_margin == 40
emu_per_pt == 12700
pp_box_size == 500
pp_title_limit == 100
pp_flow_step == 18

\* emu_to_pt: int(emu) / 12700
emu_to_pt(emu) == RNorm(emu, emu_per_pt)

\* One <Relationship> element; target.has is FALSE when the Target
\* attribute is missing (rel.get('Target') is None)
Rel(id, has, path) == [id |-> id, target |-> [has |-> has, path |-> path]]

\* "if target.startswith('../'): target = 'ppt/' + target[3:]" on a path
\* given as the sequence of its segments, the texts between its slashes: the
\* one segment ".." has no slash after it and is kept
ResolveTarget(path) ==
  IF Len(path) >= 2 /\ Head(path) = ".." THEN <<"ppt">> \o Tail(path) ELSE path

\* The loop over the Relationship elements, rels being the map built so far.
\* A missing Target raises AttributeError on target.startswith: the except
\* clause ends the loop and the map built so far is returned.
RECURSIVE RelsLoop(_, _, _)
RelsLoop(entries, k, rels) ==
  IF k > Len(entries) THEN rels
  ELSE IF ~entries[k].target.has THEN rels
  ELSE RelsLoop(entries, k + 1,
         [x \in (DOMAIN rels) \cup {entries[k].id} |->
            IF x = entries[k].id THEN ResolveTarget(entries[k].target.path)
            ELSE rels[x]])

EmptyRels == [x \in {} |-> <<>>]

\* get_relationships(slide_filename); part.present: the .rels part is in
\* the archive, part.wellformed: etree.fromstring accepts it
get_relationships(part) ==
  IF ~part.present THEN EmptyRels
  ELSE IF ~part.wellformed THEN EmptyRels
  ELSE RelsLoop(part.entries, 1, EmptyRels)

\* A child of the shape tree.  kind "pic": embed is the blip's r:embed
\* ("" when there is none), hasXfrm whether <a:xfrm> exists, x, y, cx, cy its
\* offsets and extents in EMU.  kind "sp": lines is text_content, hasOff
\* whether spPr/xfrm/off exists, x, y its offsets; bad: an offset attribute
\* is not a number, so int(emu) raises ValueError.
Shape(kind, embed, hasXfrm, x, y, cx, cy, lines, hasOff, bad) ==
  [kind |-> kind, embed |-> embed, hasXfrm |-> hasXfrm, x |-> x, y |-> y,
   cx |-> cx, cy |-> cy, lines |-> lines, hasOff |-> hasOff, bad |-> bad]

\* 1. Pictures: every failure inside is caught by the inner try and printed
PptxPic(st, sh, relationships, names, unit, shapeNo) ==
  IF sh.embed = "" \/ sh.embed \notin DOMAIN relationships THEN st
  ELSE IF relationships[sh.embed] \notin names THEN st
  ELSE IF ~sh.hasXfrm \/ sh.bad THEN st
  ELSE LET x == emu_to_pt(sh.x)
           y == emu_to_pt(sh.y)
           w == emu_to_pt(sh.cx)
           h == emu_to_pt(sh.cy)
       IN  IF RGt(w, R(0)) /\ RGt(h, R(0))
           THEN InsertImage(st, unit, shapeNo, 0, x, y, RAdd(x, w), RAdd(y, h))
           ELSE st

\* "for line in text_content" of a positioned text shape; y is the running
\* vertical position
RECURSIVE PptxBoxLines(_, _, _, _, _, _, _, _)
PptxBoxLines(st, lines, k, x, y, unit, shapeNo, font) ==
  IF k > Len(lines) THEN st
  ELSE LET fontsize == IF RLt(y, R(pp_title_limit)) THEN 24 ELSE 14
           s1 == InsertTextbox(st, unit, shapeNo, k, x, y,
                               RAdd(x, R(pp_box_size)), RAdd(y, R(pp_box_size)),
                               lines[k], font)
       IN  PptxBoxLines(s1, lines, k + 1, x, RAdd(y, RMul(R(fontsize), Float15)),
                        unit, shapeNo, font)

\* "for line in text_content" of a text shape without a position: the
\* fallback flow; st.y is flow_y
RECURSIVE PptxFlowLines(_, _, _, _, _, _)
PptxFlowLines(st, lines, k, unit, shapeNo, font) ==
  IF k > Len(lines) THEN st
  ELSE PptxFlowLines(
         [InsertText(st, unit, shapeNo, R(pp_margin), st.y, lines[k], font, "black")
            EXCEPT !.y = RAdd(st.y, R(pp_flow_step))],
         lines, k + 1, unit, shapeNo, font)

\* 2. Text shapes
PptxSp(st, sh, unit, shapeNo, font) ==
  IF sh.lines = <<>> THEN st
  ELSE IF sh.hasOff /\ sh.bad THEN [st EXCEPT !.raised = TRUE]
  ELSE IF sh.hasOff
       THEN PptxBoxLines(st, sh.lines, 1, emu_to_pt(sh.x), emu_to_pt(sh.y),
                         unit, shapeNo, font)
       ELSE PptxFlowLines(st, sh.lines, 1, unit, shapeNo, font)

RECURSIVE PptxShapes(_, _, _, _, _, _, _)
PptxShapes(st, shapes, k, relationships, names, unit, font) ==
  IF st.raised \/ k > Len(shapes) THEN st
  ELSE LET sh == shapes[k]
           s1 == IF sh.kind = "pic" THEN PptxPic(st, sh, relationships, names, unit, k)
                 ELSE IF sh.kind = "sp" THEN PptxSp(st, sh, unit, k, font)
                 ELSE st
       IN  PptxShapes(s1, shapes, k + 1, relationships, names, unit, font)

\* The except clause of a slide: the marker goes to (margin, margin)
PptxHandler(st, unit, msg) ==
  InsertText([st EXCEPT !.raised = FALSE], unit, 0, R(pp_margin), R(pp_margin),
             ErrorPrefix \o msg, "helv", "red")

\* The body of "for slide_idx, (slide_num, slide_path) in enumerate(slide_files)".
\* slide.fail: "number" (the slide-number insert_text raises, outside the
\* try), "parse" (reading or parsing the slide part raises) or "none".
PptxSlide(st, slide, slide_idx, staged) ==
  LET unit == slide_idx + 1
      font == FontName(staged)
      s0   == NewPage(st, unit)
      s1   == InsertText(s0, unit, 0, R(pp_page_width - pp_margin - 30),
                         R(pp_page_height - 20), Str(slide_idx + 1), font, "grey")
      relationships == get_relationships(slide.rels)
      s2   == [s1 EXCEPT !.y = R(pp_margin), !.ySet = TRUE]
      body == IF slide.fail = "parse" THEN [s1 EXCEPT !.raised = TRUE]
              ELSE PptxShapes(s2, slide.shapes, 1, relationships, slide.names, unit, font)
  IN  IF slide.fail = "number" THEN [s0 EXCEPT !.raised = TRUE]
      ELSE IF body.raised THEN PptxHandler(body, unit, slide.msg)
      ELSE body

\* ------------------------------------------------------------------------
\* Word-processor converter (convert_word_to_pdf)
\* ------------------------------------------------------------------------
wd_page_width == 595
wd_page_height == 842
wd_margin == 72
text_width == wd_page_width - 2 * wd_margin
max_image_height == wd_page_height - 2 * wd_margin
wd_row_height == 22
wd_table_spacing == 10
wd_box_depth == 1000
default_extent == 1270000

\* heading_fontsizes.get(style_name, 11)
HeadingSize(style_name) ==
  CASE style_name = "Heading 1" -> 14
    [] style_name = "Heading 2" -> 13
    [] style_name = "Heading 3" -> 12
    [] style_name = "Title" -> 18
    [] style_name = "Subtitle" -> 14
    [] OTHER -> 11

\* new_page()
new_page(st, unit) == [NewPage(st, unit) EXCEPT !.y = R(wd_margin)]

\* A faulty check that lets a block run into the bottom margin
EnsureSpaceNoMargin(s0, needed_height, unit) ==
  IF RGt(needed_height, R(wd_page_height - 2 * wd_margin))
  THEN IF RGt(s0.y, R(wd_margin)) THEN new_page(s0, unit) ELSE s0
  ELSE IF RGt(RAdd(s0.y, needed_height), R(wd_page_height))
       THEN new_page(s0, unit)
       ELSE s0

\* A faulty check without the branch for a block higher than a page
EnsureSpaceNoOversize(s0, needed_height, unit) ==
  IF RGt(RAdd(s0.y, needed_height), R(wd_page_height - wd_margin))
  THEN new_page(s0, unit)
  ELSE s0

\* ensure_space after its first statement, s0 being the state with a page
EnsureSpaceOn(s0, needed_height, unit) ==
  IF RGt(needed_height, R(wd_page_height - 2 * wd_margin))
  THEN IF RGt(s0.y, R(wd_margin)) THEN new_page(s0, unit) ELSE s0
  ELSE IF RGt(RAdd(s0.y, needed_height), R(wd_page_height - wd_margin))
       THEN new_page(s0, unit)
       ELSE s0

\* ensure_space(needed_height); st.page = 0 stands for current_page is None
ensure_space(st, needed_height, unit) ==
  EnsureSpaceOn(IF st.page = 0 THEN new_page(st, unit) ELSE st, needed_height, unit)

\* The position of the first whitespace character of the text, Len + 1
\* when it has none
FirstSpace(text) ==
  LET S == {i \in 1..Len(text) : IsSpace(text[i])}
  IN  IF S = {} THEN Len(text) + 1 ELSE CHOOSE i \in S : \A j \in S : i <= j

\* text.split(): the maximal runs of non-whitespace characters; cur is the
\* word being read
RECURSIVE SplitWords(_, _)
SplitWords(text, cur) ==
  LET k == FirstSpace(text)
      word == cur \o SubSeq(text, 1, k - 1)
      found == IF word = <<>> THEN <<>> ELSE <<word>>
  IN  IF k > Len(text) THEN found
      ELSE found \o SplitWords(SubSeq(text, k + 1, Len(text)), <<>>)

\* A faulty estimate that takes every character for a narrow one
EstW2Narrow(line, fontsize) == Len(line) * fontsize

\* Twice est_w of a line: fontsize per character above 255, half of it
\* otherwise
RECURSIVE EstW2(_, _)
EstW2(line, fontsize) ==
  IF line = <<>> THEN 0
  ELSE (IF Head(line) > 255 THEN 2 * fontsize ELSE fontsize) + EstW2(Tail(line), fontsize)

\* A faulty cursor update that moves the cursor up the page
AdvanceYBack(st, d) == [st EXCEPT !.y = RSub(st.y, d)]

\* "y_position += d"
AdvanceY(st, d) == [st EXCEPT !.y = RAdd(st.y, d)]

\* insert_text of one line at the cursor s1, then "y_position += lineheight"
WordDrawLine(s1, line_buf, fontsize, lineheight, unit, font) ==
  AdvanceY(InsertText(s1, unit, 0, R(wd_margin), RAdd(s1.y, R(fontsize)),
                      line_buf, font, "black"),
           lineheight)

\* One emitted line: ensure_space, insert_text, advance the cursor
WordEmitLine(st, line_buf, fontsize, lineheight, unit, font) ==
  WordDrawLine(ensure_space(st, lineheight, unit), line_buf, fontsize, lineheight,
               unit, font)

\* A faulty candidate line that puts no space between two words
TestLineNoSpace(line_buf, word) == line_buf \o word

\* test_line = line_buf + (" " if line_buf else "") + word
TestLine(line_buf, word) ==
  line_buf \o (IF line_buf # <<>> THEN <<ChSpace>> ELSE <<>>) \o word

\* "for word in words" of flush_text and the final flush
RECURSIVE WrapLoop(_, _, _, _, _, _, _, _)
WrapLoop(st, words, k, line_buf, fontsize, lineheight, unit, font) ==
  IF k > Len(words)
  THEN IF line_buf # <<>>
       THEN WordEmitLine(st, line_buf, fontsize, lineheight, unit, font)
       ELSE st
  ELSE LET word == words[k]
           test_line == TestLine(line_buf, word)
       IN  IF EstW2(test_line, fontsize) > 2 * text_width /\ line_buf # <<>>
           THEN WrapLoop(WordEmitLine(st, line_buf, fontsize, lineheight, unit, font),
                         words, k + 1, word, fontsize, lineheight, unit, font)
           ELSE WrapLoop(st, words, k + 1, test_line, fontsize, lineheight, unit, font)

flush_text(st, text, fontsize, lineheight, unit, font) ==
  IF text = <<>> THEN st
  ELSE WrapLoop(st, SplitWords(text, <<>>), 1, <<>>, fontsize, lineheight, unit, font)

\* A <w:drawing>: hasBlip, embed (the blip's r:embed, "" when none), relOk
\* (doc.part.rels has the id), hasExtent, cx, cy (the extent in EMU)
Drawing(hasBlip, embed, relOk, hasExtent, cx, cy) ==
  [hasBlip |-> hasBlip, embed |-> embed, relOk |-> relOk,
   hasExtent |-> hasExtent, cx |-> cx, cy |-> cy]

\* "Scale down width"
FitWidth(wh) ==
  IF RGt(wh[1], R(text_width))
  THEN LET scale == RDiv(R(text_width), wh[1])
       IN  <<RMul(wh[1], scale), RMul(wh[2], scale)>>
  ELSE wh

\* A faulty height fit that scales the height only
FitHeightOnly(wh) ==
  IF RGt(wh[2], R(max_image_height))
  THEN <<wh[1], R(max_image_height)>>
  ELSE wh

\* "Scale down height if still too big for a full page"
FitHeight(wh) ==
  IF RGt(wh[2], R(max_image_height))
  THEN LET scale == RDiv(R(max_image_height), wh[2])
       IN  <<RMul(wh[1], scale), RMul(wh[2], scale)>>
  ELSE wh

\* <<width, height>> of a drawing in points after the two fits
ImageSize(d) ==
  FitHeight(FitWidth(<<emu_to_pt(IF d.hasExtent THEN d.cx ELSE default_extent),
                       emu_to_pt(IF d.hasExtent THEN d.cy ELSE default_extent)>>))

\* "Center image", insert_image at the cursor s1, "y_position += height + 5"
WordPlaceImage(s1, width, height, unit, runNo, drawNo) ==
  LET x_offset == RAdd(R(wd_margin), RDiv(RSub(R(text_width), width), R(2)))
  IN  AdvanceY(InsertImage(s1, unit, runNo, drawNo, x_offset, s1.y,
                           RAdd(x_offset, width), RAdd(s1.y, height)),
               RAdd(height, R(5)))

\* A faulty placement that does not ask for space first
WordImageUnchecked(st, wh, unit, runNo, drawNo) ==
  WordPlaceImage(IF st.page = 0 THEN new_page(st, unit) ELSE st, wh[1], wh[2], unit,
                 runNo, drawNo)

\* ensure_space(height + 10), then the placement
WordImageSized(st, wh, unit, runNo, drawNo) ==
  WordPlaceImage(ensure_space(st, RAdd(wh[2], R(10)), unit), wh[1], wh[2], unit, runNo,
                 drawNo)

\* One drawing of a run; a failing relationship lookup is swallowed by
\* "except Exception: pass"
WordImage(st, d, unit, runNo, drawNo) ==
  IF ~d.hasBlip \/ d.embed = "" \/ ~d.relOk THEN st
  ELSE WordImageSized(st, ImageSize(d), unit, runNo, drawNo)

RECURSIVE WordDrawings(_, _, _, _, _)
WordDrawings(st, drawings, k, unit, runNo) ==
  IF k > Len(drawings) THEN st
  ELSE WordDrawings(WordImage(st, drawings[k], unit, runNo, k), drawings, k + 1, unit,
                    runNo)

\* "for run in para.runs"; the result is the state and current_line_text
RECURSIVE WordRuns(_, _, _, _, _, _, _, _)
WordRuns(st, runs, k, current_line_text, fontsize, lineheight, unit, font) ==
  IF k > Len(runs) THEN [st |-> st, text |-> current_line_text]
  ELSE LET run == runs[k]
           s1  == IF run.drawings # <<>> /\ current_line_text # <<>>
                  THEN flush_text(st, current_line_text, fontsize, lineheight, unit, font)
                  ELSE st
           t1  == IF run.drawings # <<>> THEN <<>> ELSE current_line_text
           s2  == WordDrawings(s1, run.drawings, 1, unit, k)
       IN  WordRuns(s2, runs, k + 1, t1 \o run.text, fontsize, lineheight, unit, font)

\* The end of a paragraph, r being the state and current_line_text after
\* its runs: the final flush and "y_position += base_fontsize * 0.5"
WordParagraphEnd(r, base_fontsize, lineheight, unit, font) ==
  AdvanceY(IF r.text # <<>>
           THEN flush_text(r.st, r.text, base_fontsize, lineheight, unit, font)
           ELSE r.st,
           RMul(R(base_fontsize), Float05))

WordParagraphSized(st, para, base_fontsize, lineheight, unit, font) ==
  WordParagraphEnd(
    WordRuns(st, para.runs, 1, <<>>, base_fontsize, lineheight, unit, font),
    base_fontsize, lineheight, unit, font)

\* A body element that is a paragraph
WordParagraph(st, para, unit, font) ==
  WordParagraphSized(st, para, HeadingSize(para.style),
                     RMul(R(HeadingSize(para.style)), Float14), unit, font)

\* "for cell in row.cells"; x is the running offset.  With col_width = 0
\* (a table without grid columns) the text box of a cell with text is
\* inserted in its rect, and then "lines = len(cell_text) * 5 / (col_width)"
\* divides by zero: the cell raises after its box.
RECURSIVE WordCells(_, _, _, _, _, _, _, _, _)
WordCells(st, cells, i, x, col_width, initial_y, unit, rowNo, font) ==
  IF st.raised \/ i > Len(cells) THEN st
  ELSE LET cell_text == Strip(cells[i])
           s1 == IF cell_text = <<>> THEN st
                 ELSE [InsertTextbox(st, unit, rowNo, i,
                         RAdd(x, R(2)), RAdd(initial_y, R(2)),
                         RSub(RAdd(x, col_width), R(2)),
                         RAdd(initial_y, R(wd_box_depth)), cell_text, font)
                       EXCEPT !.raised = (col_width = R(0))]
       IN  WordCells(s1, cells, i + 1, RAdd(x, col_width), col_width, initial_y,
                     unit, rowNo, font)

\* An advance of the cursor that a raise before it leaves out
AdvanceUnlessRaised(st, h) == IF st.raised THEN st ELSE AdvanceY(st, h)

\* The cells of a row at the cursor s1 (initial_y = y_position), then
\* "y_position += row_height"
WordRowCells(s1, cells, col_width, unit, rowNo, font) ==
  AdvanceUnlessRaised(
    WordCells(s1, cells, 1, R(wd_margin), col_width, s1.y, unit, rowNo, font),
    R(wd_row_height))

\* One iteration of "for row in table.rows"
WordRow(st, cells, col_width, unit, rowNo, font) ==
  WordRowCells(ensure_space(st, R(wd_row_height), unit), cells, col_width, unit,
               rowNo, font)

RECURSIVE WordRows(_, _, _, _, _, _)
WordRows(st, rows, k, col_width, unit, font) ==
  IF st.raised \/ k > Len(rows) THEN st
  ELSE WordRows(WordRow(st, rows[k], col_width, unit, k, font), rows, k + 1,
                col_width, unit, font)

\* A body element that is a table; tbl.cols is len(table.columns)
WordTable(st, tbl, unit, font) ==
  AdvanceUnlessRaised(
    WordRows(st, tbl.rows, 1,
             IF tbl.cols > 0 THEN RNorm(text_width, tbl.cols) ELSE R(0),
             unit, font),
    R(wd_table_spacing))

\* The body of "for element in doc.element.body".  The loop has no try:
\* when a call made for the element raises (element.fail: a library call
\* such as para.style or len(table.columns) rejects the element's XML),
\* the conversion call raises.
WordElement(st, element, elem_idx, staged) ==
  LET unit == elem_idx + 1
      font == FontName(staged)
  IN  IF element.kind = "p"
      THEN IF element.fail THEN [st EXCEPT !.raised = TRUE]
           ELSE WordParagraph(st, element, unit, font)
      ELSE IF element.kind = "tbl"
      THEN IF element.fail THEN [st EXCEPT !.raised = TRUE]
           ELSE WordTable(st, element, unit, font)
      ELSE st

\* ------------------------------------------------------------------------
\* EPUB converter (convert_epub_to_pdf): the placement of one rendered page
\* ------------------------------------------------------------------------
ep_page_width == 595
ep_page_height == 842
ep_margin == 30
target_width == ep_page_width - 2 * ep_margin
target_height == ep_page_height - 2 * ep_margin

\* display_width, display_height
EpubDisplay(pix_width, pix_height) ==
  LET scale_to_fit_w ==
        IF pix_width > target_width THEN RNorm(target_width, pix_width) ELSE R(1)
      scale_to_fit_h ==
        IF pix_height > target_height THEN RNorm(target_height, pix_height) ELSE R(1)
      scale_to_fit == RMin(scale_to_fit_w, scale_to_fit_h)
  IN  <<RMul(R(pix_width), scale_to_fit), RMul(R(pix_height), scale_to_fit)>>

\* The body of "for page_num in range(total_pages)"; pg.empty: the EPUB
\* page's rect has no area and the page is skipped
EpubPage(st, pg, page_num) ==
  IF pg.empty THEN st
  ELSE LET unit == page_num + 1
           s0 == NewPage(st, unit)
           d  == EpubDisplay(pg.pix_width, pg.pix_height)
           x_offset == RDiv(RSub(R(ep_page_width), d[1]), R(2))
           y_offset == RDiv(RSub(R(ep_page_height), d[2]), R(2))
       IN  InsertImage(s0, unit, 1, 0, x_offset, y_offset,
                       RAdd(x_offset, d[1]), RAdd(y_offset, d[2]))

\* quality_config.get(quality, quality_config['medium']): the render scale
\* and the largest pixmap side of a quality
quality_config(quality) ==
  CASE quality = "low" -> [scale |-> R(1), max_dim |-> 1500]
    [] quality = "high" -> [scale |-> R(2), max_dim |-> 2500]
    [] OTHER -> [scale |-> Float15, max_dim |-> 2000]

\* base_scale = min(max_dim / rect.width, max_dim / rect.height, quality_scale)
base_scale(rect, config) ==
  RMin(RMin(RDiv(R(config.max_dim), R(rect.width)),
            RDiv(R(config.max_dim), R(rect.height))),
       config.scale)

\* The pixels that cover a length: the pixmap of get_pixmap covers the
\* scaled page rectangle, its far edge rounded up as the backend rounds a
\* rectangle to pixels, less its tolerance of 0.001
PixelTolerance == RNorm(1, 1000)
CeilOf(a) == IF RGt(a, R(RInt(a))) THEN RInt(a) + 1 ELSE RInt(a)
PixelsOf(len) == CeilOf(RSub(len, PixelTolerance))

\* epub_page.get_pixmap(matrix=mat) of a page with the given rect
get_pixmap(rect, scale) ==
  [empty |-> FALSE,
   pix_width |-> PixelsOf(RMul(R(rect.width), scale)),
   pix_height |-> PixelsOf(RMul(R(rect.height), scale))]

\* A page as the loop body sees it: skipped where its rect has no area
EpubRendered(rect, quality) ==
  IF rect.width <= 0 \/ rect.height <= 0
  THEN [empty |-> TRUE, pix_width |-> 0, pix_height |-> 0]
  ELSE get_pixmap(rect, base_scale(rect, quality_config(quality)))

\* ------------------------------------------------------------------------
\* Rich-text converter (convert_rtf_to_pdf)
\* ------------------------------------------------------------------------
ChBackslash == 92
ChOpen == 123
ChClose == 125

IsLower(c) == c >= 97 /\ c <= 122

RECURSIVE SkipWhile(_, _)
SkipWhile(text, kind) ==
  IF text # <<>> /\ (IF kind = "lower" THEN IsLower(Head(text)) ELSE IsDigit(Head(text)))
  THEN SkipWhile(Tail(text), kind) ELSE text

\* re.sub(r'\\[a-z]+\d* ?', '', text): control words
RECURSIVE StripControlWords(_)
StripControlWords(text) ==
  IF text = <<>> THEN <<>>
  ELSE IF Head(text) = ChBackslash /\ Len(text) >= 2 /\ IsLower(text[2])
       THEN LET r1 == SkipWhile(SkipWhile(Tail(text), "lower"), "digit")
                r2 == IF r1 # <<>> /\ Head(r1) = ChSpace THEN Tail(r1) ELSE r1
            IN  StripControlWords(r2)
       ELSE <<Head(text)>> \o StripControlWords(Tail(text))

\* re.sub(r'[{}]', '', text)
StripBraces(text) == SelectSeq(text, LAMBDA c : c \notin {ChOpen, ChClose})

\* strip_rtf(text).  The third substitution, re.sub(r'\\\\', '\\', text),
\* passes a replacement template that is a lone backslash: the re module
\* rejects it ("bad escape (end of pattern)") before it looks at the text,
\* so the function raises on every input.
strip_rtf(text) ==
  [raised |-> TRUE, text |-> StripBraces(StripControlWords(text))]

rtf_page_width == 595
rtf_page_height == 842
rtf_margin == 72
rtf_fontsize == 11
rtf_lineheight == RMul(R(rtf_fontsize), Float15)

\* int((page_height - 2 * margin) / lineheight)
max_lines_per_page == RInt(RDiv(R(rtf_page_height - 2 * rtf_margin), rtf_lineheight))

\* plain_text.split('\n')
RECURSIVE SplitLines(_, _)
SplitLines(text, cur) ==
  IF text = <<>> THEN <<cur>>
  ELSE IF Head(text) = ChNewline THEN <<cur>> \o SplitLines(Tail(text), <<>>)
       ELSE SplitLines(Tail(text), Append(cur, Head(text)))

\* "for line in lines"
RECURSIVE RtfLines(_, _, _, _)
RtfLines(st, lines, k, current_line) ==
  IF k > Len(lines) THEN st
  ELSE LET fresh == st.page = 0 \/ current_line >= max_lines_per_page
           s1 == IF fresh THEN [NewPage(st, 1) EXCEPT !.y = R(rtf_margin)] ELSE st
           s2 == IF Strip(lines[k]) # <<>>
                 THEN InsertText(s1, 1, k, R(rtf_margin), RAdd(s1.y, R(rtf_fontsize)),
                                 lines[k], "helv", "black")
                 ELSE s1
       IN  RtfLines([s2 EXCEPT !.y = RAdd(s2.y, rtf_lineheight)], lines, k + 1,
                    (IF fresh THEN 0 ELSE current_line) + 1)

\* convert_rtf_to_pdf: strip_rtf is called before the document is created
RtfConvert(st, rtf_text) ==
  LET plain == strip_rtf(rtf_text)
  IN  IF plain.raised THEN [st EXCEPT !.raised = TRUE]
      ELSE LET s1 == RtfLines(st, SplitLines(plain.text, <<>>), 1, 0)
           IN  IF s1.pages = 0 THEN NewPage(s1, 0) ELSE s1

\* ------------------------------------------------------------------------
\* Inputs of the spreadsheet converter
\* ------------------------------------------------------------------------
TxtA == <<ChA>>
TxtB == <<ChA + 1>>
TxtWide == <<ChWide, ChWide>>
TxtMsg == <<88>>

RowAB == <<Cell("n", TxtA, <<>>), Cell("n", TxtB, <<>>)>>
RowGap == <<Cell("n", TxtA, <<>>), Cell("n", <<>>, <<>>), Cell("inlineStr", <<>>, TxtWide)>>
RowBlank == <<Cell("n", <<>>, <<>>), Cell("inlineStr", <<>>, <<>>)>>
RowLong == [i \in 1..5 |-> Cell("n", Rep(ChA, 40), <<>>)]
RowMany == [i \in 1..21 |-> Cell("n", TxtA, <<>>)]
RowRef(v) == <<Cell("n", TxtA, <<>>), Cell("s", v, <<>>)>>
\* The row ["1", "2"]
Row12 == <<Cell("n", <<ChZero + 1>>, <<>>), Cell("n", <<ChZero + 2>>, <<>>)>>

\* Values of a shared-string reference: 0, 2, 7, -1, -3, x and " +1"
SharedRefs ==
  {<<48>>, <<50>>, <<55>>, <<ChDash, 49>>, <<ChDash, 51>>, <<120>>,
   <<ChSpace, ChPlus, 49>>}

SharedTables == {<<>>, <<TxtB, TxtWide>>}

\* Row counts: a few rows, and counts around the capacity of one page
RowCounts == {0, 1} \cup (29..MaxRows)

Sheet(rows, fail) == [rows |-> rows, fail |-> fail, msg |-> TxtMsg]

SheetInputs ==
  {Sheet([k \in 1..n |-> RowAB], "none") : n \in RowCounts}
  \cup {Sheet(<<RowRef(v)>>, "none") : v \in SharedRefs}
  \cup {Sheet(<<RowBlank, RowGap>>, "none"), Sheet(<<RowLong>>, "none"),
        Sheet(<<RowMany>>, "none"), Sheet(<<RowAB, Row12>>, "none")}
  \cup {Sheet(<<RowAB>>, f) : f \in {"header", "parse", "box"}}

\* ------------------------------------------------------------------------
\* Inputs of the presentation converter
\* ------------------------------------------------------------------------
Pt(n) == n * emu_per_pt

ImagePath == <<"ppt", "media", "image1.png">>
ImageTarget == <<"..", "media", "image1.png">>
RelsMissing == [present |-> FALSE, wellformed |-> TRUE, entries |-> <<>>]
RelsMalformed == [present |-> TRUE, wellformed |-> FALSE, entries |-> <<>>]
RelsOk ==
  [present |-> TRUE, wellformed |-> TRUE, entries |-> <<Rel("rId1", TRUE, ImageTarget)>>]
RelsPartial ==
  [present |-> TRUE, wellformed |-> TRUE,
   entries |-> <<Rel("rId1", TRUE, ImageTarget), Rel("rId2", FALSE, <<>>)>>]

Pic(x, y, cx, cy) == Shape("pic", "rId1", TRUE, x, y, cx, cy, <<>>, FALSE, FALSE)
SpAt(x, y, lines) == Shape("sp", "", FALSE, x, y, 0, 0, lines, TRUE, FALSE)
SpFlow(lines) == Shape("sp", "", FALSE, 0, 0, 0, 0, lines, FALSE, FALSE)
SpBad(lines) == Shape("sp", "", FALSE, 0, 0, 0, 0, lines, TRUE, TRUE)

Slide(shapes, rels, fail) ==
  [shapes |-> shapes, rels |-> rels, names |-> {ImagePath}, fail |-> fail,
   msg |-> TxtMsg]

SlideInputs ==
  {Slide(<<>>, RelsMissing, "none"),
   Slide(<<Pic(Pt(100), Pt(50), Pt(200), Pt(100))>>, RelsOk, "none"),
   Slide(<<Pic(Pt(800), Pt(500), Pt(200), Pt(200))>>, RelsOk, "none"),
   Slide(<<Pic(6350, 6350, 19050, 31750)>>, RelsPartial, "none"),
   Slide(<<Pic(Pt(100), Pt(50), 0, Pt(100))>>, RelsOk, "none"),
   Slide(<<Pic(Pt(7200), Pt(50), 1, Pt(100))>>, RelsOk, "none"),
   Slide(<<Pic(Pt(100), Pt(50), Pt(200), Pt(100))>>, RelsMissing, "none"),
   Slide(<<Pic(Pt(100), Pt(50), Pt(200), Pt(100))>>, RelsMalformed, "none"),
   Slide(<<SpAt(Pt(50), Pt(50), <<TxtA, TxtB>>)>>, RelsMissing, "none"),
   Slide(<<SpFlow(<<TxtA, TxtWide>>), Shape("grpSp", "", FALSE, 0, 0, 0, 0, <<>>, FALSE, FALSE)>>,
         RelsMissing, "none"),
   Slide(<<SpFlow(<<TxtA>>), SpBad(<<TxtB>>), SpFlow(<<TxtB>>)>>, RelsMissing, "none"),
   Slide(<<SpFlow(<<TxtA>>)>>, RelsMissing, "parse"),
   Slide(<<SpFlow(<<TxtA>>)>>, RelsMissing, "number")}

\* ------------------------------------------------------------------------
\* Inputs of the word-processor converter
\* One image is one EMU wide and 2000000000 EMU high: after the height fit
\* its width is far below the spacing of the floats around its corners
\* ------------------------------------------------------------------------
MaxBody == 2

Run(drawings, text) == [drawings |-> drawings, text |-> text]
Para(style, runs) == [kind |-> "p", style |-> style, runs |-> runs, fail |-> FALSE,
                      cols |-> 0, rows |-> <<>>]
Tbl(cols, rows) == [kind |-> "tbl", style |-> "", runs |-> <<>>, fail |-> FALSE,
                    cols |-> cols, rows |-> rows]
Failing(el) == [el EXCEPT !.fail = TRUE]
Img(cx, cy) == Drawing(TRUE, "rId1", TRUE, TRUE, cx, cy)

\* n words of m characters c, separated by single spaces
RECURSIVE WordsText(_, _, _)
WordsText(n, m, c) ==
  IF n = 0 THEN <<>>
  ELSE IF n = 1 THEN Rep(c, m)
  ELSE Rep(c, m) \o <<ChSpace>> \o WordsText(n - 1, m, c)

BodyInputs ==
  {Para("Normal", <<Run(<<>>, <<97, ChSpace>>), Run(<<>>, <<98>>)>>),
   Para("Heading 1", <<Run(<<>>, WordsText(8, 9, 97))>>),
   Para("Normal", <<Run(<<>>, WordsText(3, 20, ChWide))>>),
   Para("Title", <<Run(<<>>, Rep(97, 60))>>),
   Para("Normal", <<Run(<<Img(Pt(600), Pt(900))>>, <<97>>)>>),
   Para("Normal", <<Run(<<Img(Pt(902), Pt(1804))>>, <<>>)>>),
   Para("Normal", <<Run(<<>>, <<97>>), Run(<<Img(Pt(100), Pt(50))>>, <<98>>)>>),
   Para("Normal", <<Run(<<Img(1, 2000000000)>>, <<>>)>>),
   Para("Normal", <<Run(<<Drawing(TRUE, "rId1", TRUE, FALSE, 0, 0),
                           Drawing(TRUE, "rId9", FALSE, TRUE, Pt(10), Pt(10))>>, <<>>)>>),
   Tbl(2, <<<<TxtA, TxtB>>>>),
   Tbl(3, [k \in 1..5 |-> <<<<ChSpace>>, TxtB, TxtA>>]),
   [kind |-> "sectPr", style |-> "", runs |-> <<>>, fail |-> FALSE, cols |-> 0,
    rows |-> <<>>],
   Failing(Para("Normal", <<Run(<<>>, <<97>>)>>)),
   Tbl(0, <<<<TxtA>>>>),
   Failing(Tbl(2, <<<<TxtA, TxtB>>>>))}

\* ------------------------------------------------------------------------
\* Inputs of the EPUB and rich-text converters
\* ------------------------------------------------------------------------
EpubPageInputs ==
  {[empty |-> FALSE, pix_width |-> w, pix_height |-> h] :
     w \in {300, 535, 1070, 2000}, h \in {400, 782, 1564, 2500}}
  \cup {[empty |-> TRUE, pix_width |-> 0, pix_height |-> 0]}

\* {\rtf1 Hello\par World}
RtfHello ==
  <<ChOpen, ChBackslash, 114, 116, 102, 49, ChSpace, 72, 101, 108, 108, 111,
    ChBackslash, 112, 97, 114, ChSpace, 87, 111, 114, 108, 100, ChClose>>

RtfInputs ==
  {<<>>, RtfHello, <<97, ChNewline, 98>>, <<ChOpen, ChBackslash, 114, 116, 102, 49, ChClose>>}

\* ------------------------------------------------------------------------
\* One conversion call as a state machine: the call is opened on an archive,
\* processes its structural units one by one and returns
\* ------------------------------------------------------------------------
VARIABLES
  fmt,       \* the converter that is running
  phase,     \* "start", "units", "done"; "rejected": the input was no archive
  nUnits,    \* the number of structural units of the input
  idx,       \* the number of units processed so far
  shared,    \* shared_strings
  staged,    \* custom_font.otf exists
  st,        \* the conversion state (see EmptyPdf)
  doc,       \* the units processed so far
  result     \* "none", "ok" (bytes returned) or "error" (the call raised)

lvars == <<fmt, phase, nUnits, idx, shared, staged, st, doc, result>>

\* The worker of one format: init() and self.onmessage (modelled below)
VARIABLES
  wfmt,              \* the worker's format
  pyodide,           \* "null" or "loaded": the module variable pyodide
  initPromise,       \* "none", "pending", "fulfilled", "rejected"
  initPc,            \* the await at which init() stands
  installed,         \* packages installed so far
  fontFile,          \* custom_font.otf has been written
  converterDefined,  \* runPython has defined the converter
  loadCalls,         \* calls of loadPyodide
  script,            \* the converter of the script init() runs, as its graph
  handlers,          \* one record per message received, in arrival order
  posted             \* the messages posted, in order

wvars == <<wfmt, pyodide, initPromise, initPc, installed, fontFile,
           converterDefined, loadCalls, script, handlers, posted>>

\* One call of a function of the converters, taken by itself
VARIABLES
  op,    \* the function called ("none": no call was made)
  arg,   \* the arguments of the call
  ret    \* what the call returned or left behind

fvars == <<op, arg, ret>>

vars == <<fmt, phase, nUnits, idx, shared, staged, st, doc, result,
          wfmt, pyodide, initPromise, initPc, installed, fontFile,
          converterDefined, loadCalls, script, handlers, posted,
          op, arg, ret>>

\* No function is called by itself
FuncIdle == op = "none" /\ arg = <<>> /\ ret = <<>>

LayoutInit ==
  /\ fmt = "none" /\ phase = "start" /\ nUnits = 0 /\ idx = 0
  /\ shared = <<>> /\ staged = FALSE /\ st = EmptyPdf /\ doc = <<>>
  /\ result = "none"

\* zipfile.ZipFile(...) raises BadZipFile: the call raises ValueError
\* before pymupdf.open()
OpenCorrupt(f) ==
  /\ phase = "start"
  /\ fmt' = f /\ phase' = "rejected" /\ result' = "error"
  /\ UNCHANGED <<nUnits, idx, shared, staged, st, doc>>
  /\ UNCHANGED <<wvars, fvars>>

ExcelOpen ==
  /\ phase = "start"
  /\ \E n \in 0..MaxUnits, sh \in SharedTables, fs \in BOOLEAN :
       /\ fmt' = "excel" /\ phase' = "units" /\ nUnits' = n
       /\ shared' = sh /\ staged' = fs
  /\ UNCHANGED <<idx, st, doc, result>>
  /\ UNCHANGED <<wvars, fvars>>

ExcelSheetStep ==
  /\ phase = "units" /\ fmt = "excel" /\ idx < nUnits
  /\ \E sheet \in SheetInputs :
       LET s1 == ExcelSheet(st, sheet, idx, shared, staged)
       IN  /\ st' = s1
           /\ doc' = Append(doc, sheet)
           /\ idx' = idx + 1
           /\ phase' = IF s1.raised THEN "done" ELSE "units"
           /\ result' = IF s1.raised THEN "error" ELSE "none"
  /\ UNCHANGED <<fmt, nUnits, shared, staged>>
  /\ UNCHANGED <<wvars, fvars>>

ExcelFinish ==
  /\ phase = "units" /\ fmt = "excel" /\ idx = nUnits
  /\ st' = EnsureOnePage(st)
  /\ phase' = "done" /\ result' = "ok"
  /\ UNCHANGED <<fmt, nUnits, idx, shared, staged, doc>>
  /\ UNCHANGED <<wvars, fvars>>

ExcelOpenCorrupt == OpenCorrupt("excel")

PptxOpenCorrupt == OpenCorrupt("pptx")

PptxOpen ==
  /\ phase = "start"
  /\ \E n \in 0..MaxUnits, fs \in BOOLEAN :
       /\ fmt' = "pptx" /\ phase' = "units" /\ nUnits' = n /\ staged' = fs
  /\ UNCHANGED <<idx, shared, st, doc, result>>
  /\ UNCHANGED <<wvars, fvars>>

PptxSlideStep ==
  /\ phase = "units" /\ fmt = "pptx" /\ idx < nUnits
  /\ \E slide \in SlideInputs :
       LET s1 == PptxSlide(st, slide, idx, staged)
       IN  /\ st' = s1
           /\ doc' = Append(doc, slide)
           /\ idx' = idx + 1
           /\ phase' = IF s1.raised THEN "done" ELSE "units"
           /\ result' = IF s1.raised THEN "error" ELSE "none"
  /\ UNCHANGED <<fmt, nUnits, shared, staged>>
  /\ UNCHANGED <<wvars, fvars>>

PptxFinish ==
  /\ phase = "units" /\ fmt = "pptx" /\ idx = nUnits
  /\ st' = EnsureOnePage(st)
  /\ phase' = "done" /\ result' = "ok"
  /\ UNCHANGED <<fmt, nUnits, idx, shared, staged, doc>>
  /\ UNCHANGED <<wvars, fvars>>

\* Document(io.BytesIO(input_bytes)) raises before pymupdf.open()
WordOpenCorrupt == OpenCorrupt("word")

\* The call up to the body loop, with "Initialize first page"
WordOpen ==
  /\ phase = "start"
  /\ \E n \in 0..MaxBody, fs \in BOOLEAN :
       /\ fmt' = "word" /\ phase' = "units" /\ nUnits' = n /\ staged' = fs
  /\ st' = new_page(st, 0)
  /\ UNCHANGED <<idx, shared, doc, result>>
  /\ UNCHANGED <<wvars, fvars>>

WordElementStep ==
  /\ phase = "units" /\ fmt = "word" /\ idx < nUnits
  /\ \E element \in BodyInputs :
       LET s1 == WordElement(st, element, idx, staged)
       IN  /\ st' = s1
           /\ doc' = Append(doc, element)
           /\ idx' = idx + 1
           /\ phase' = IF s1.raised THEN "done" ELSE "units"
           /\ result' = IF s1.raised THEN "error" ELSE "none"
  /\ UNCHANGED <<fmt, nUnits, shared, staged>>
  /\ UNCHANGED <<wvars, fvars>>

WordFinish ==
  /\ phase = "units" /\ fmt = "word" /\ idx = nUnits
  /\ phase' = "done" /\ result' = "ok"
  /\ UNCHANGED <<fmt, nUnits, idx, shared, staged, st, doc>>
  /\ UNCHANGED <<wvars, fvars>>

EpubOpen ==
  /\ phase = "start"
  /\ \E n \in 1..MaxUnits :
       /\ fmt' = "epub" /\ phase' = "units" /\ nUnits' = n
  /\ UNCHANGED <<idx, shared, staged, st, doc, result>>
  /\ UNCHANGED <<wvars, fvars>>

EpubPageStep ==
  /\ phase = "units" /\ fmt = "epub" /\ idx < nUnits
  /\ \E pg \in EpubPageInputs :
       /\ st' = EpubPage(st, pg, idx)
       /\ doc' = Append(doc, pg)
       /\ idx' = idx + 1
  /\ UNCHANGED <<fmt, phase, nUnits, shared, staged, result>>
  /\ UNCHANGED <<wvars, fvars>>

EpubFinish ==
  /\ phase = "units" /\ fmt = "epub" /\ idx = nUnits
  /\ phase' = "done" /\ result' = "ok"
  /\ UNCHANGED <<fmt, nUnits, idx, shared, staged, st, doc>>
  /\ UNCHANGED <<wvars, fvars>>

\* The whole rich-text call: the text is the one structural unit
RtfCall ==
  /\ phase = "start"
  /\ \E rtf_text \in RtfInputs :
       LET s1 == RtfConvert(st, rtf_text)
       IN  /\ st' = s1
           /\ doc' = <<rtf_text>>
           /\ result' = IF s1.raised THEN "error" ELSE "ok"
  /\ fmt' = "rtf" /\ phase' = "done"
  /\ UNCHANGED <<nUnits, idx, shared, staged>>
  /\ UNCHANGED <<wvars, fvars>>

LayoutNext ==
  \/ ExcelOpenCorrupt
  \/ ExcelOpen
  \/ ExcelSheetStep
  \/ ExcelFinish
  \/ PptxOpenCorrupt
  \/ PptxOpen
  \/ PptxSlideStep
  \/ PptxFinish
  \/ WordOpenCorrupt
  \/ WordOpen
  \/ WordElementStep
  \/ WordFinish
  \/ EpubOpen
  \/ EpubPageStep
  \/ EpubFinish
  \/ RtfCall

\* ------------------------------------------------------------------------
\* Whole conversion calls, as the worker makes them
\* ------------------------------------------------------------------------
Raise(s) == [s EXCEPT !.raised = TRUE]

RECURSIVE ExcelSheets(_, _, _, _, _)
ExcelSheets(s, sheets, k, shared_strings, fs) ==
  IF s.raised \/ k > Len(sheets) THEN s
  ELSE ExcelSheets(ExcelSheet(s, sheets[k], k - 1, shared_strings, fs), sheets, k + 1,
                   shared_strings, fs)

RECURSIVE PptxSlides(_, _, _, _)
PptxSlides(s, slides, k, fs) ==
  IF s.raised \/ k > Len(slides) THEN s
  ELSE PptxSlides(PptxSlide(s, slides[k], k - 1, fs), slides, k + 1, fs)

RECURSIVE WordElements(_, _, _, _)
WordElements(s, elements, k, fs) ==
  IF s.raised \/ k > Len(elements) THEN s
  ELSE WordElements(WordElement(s, elements[k], k - 1, fs), elements, k + 1, fs)

\* The tail of a call: the blank page of an input without units, unless
\* the call has raised
FinishCall(s) == IF s.raised THEN s ELSE EnsureOnePage(s)

\* convert_excel_to_pdf(input), the input being a buffer that is no zip
\* archive (corrupt) or an archive with its shared strings and worksheets
convert_excel_to_pdf(input, fs) ==
  IF input.corrupt THEN Raise(EmptyPdf)
  ELSE FinishCall(ExcelSheets(EmptyPdf, input.units, 1, input.shared, fs))

convert_pptx_to_pdf(input, fs) ==
  IF input.corrupt THEN Raise(EmptyPdf)
  ELSE FinishCall(PptxSlides(EmptyPdf, input.units, 1, fs))

convert_word_to_pdf(input, fs) ==
  IF input.corrupt THEN Raise(EmptyPdf)
  ELSE WordElements(new_page(EmptyPdf, 0), input.units, 1, fs)

convert_rtf_to_pdf(input) == RtfConvert(EmptyPdf, input.text)

RECURSIVE EpubPages(_, _, _, _)
EpubPages(s, rects, k, quality) ==
  IF k > Len(rects) THEN s
  ELSE EpubPages(EpubPage(s, EpubRendered(rects[k], quality), k - 1), rects, k + 1,
                 quality)

\* convert_epub_to_pdf(input, quality), the input being a buffer that
\* pymupdf.open rejects (corrupt) or a document with the rects of its pages
convert_epub_to_pdf(input, quality) ==
  IF input.corrupt THEN Raise(EmptyPdf)
  ELSE EpubPages(EmptyPdf, input.units, 1, quality)

\* "const { file, quality = 'medium' } = data": the default of a request
\* that names no quality
QualityOf(input) == IF input.quality = "none" THEN "medium" ELSE input.quality

\* convertFunc(inputBytes) of the worker of format f; the EPUB worker calls
\* convertFunc(inputBytes, quality)
Convert(f, input, fs) ==
  CASE f = "excel" -> convert_excel_to_pdf(input, fs)
    [] f = "pptx" -> convert_pptx_to_pdf(input, fs)
    [] f = "word" -> convert_word_to_pdf(input, fs)
    [] f = "epub" -> convert_epub_to_pdf(input, QualityOf(input))
    [] OTHER -> convert_rtf_to_pdf(input)

\* ------------------------------------------------------------------------
\* The worker: init() and self.onmessage
\* ------------------------------------------------------------------------
WorkerFormats == {"excel", "pptx", "word", "rtf", "epub"}

\* The packages init() installs
Packages(f) ==
  CASE f = "word" -> 5
    [] f \in {"rtf", "epub"} -> 2
    [] OTHER -> 3

\* Whether init() downloads the fallback font
DownloadsFont(f) == f # "rtf"

NoId == 0

\* A posted message; id is NoId and pages is -1 where the message has no
\* id or no result
Msg(type, id, hasResult, pages) ==
  [type |-> type, id |-> id, hasResult |-> hasResult, pages |-> pages]

StatusMsg == Msg("status", NoId, FALSE, -1)

\* A faulty error message that drops the request id
ErrorMsgNoId(id) == Msg("error", NoId, FALSE, -1)

ErrorMsg(id) == Msg("error", id, FALSE, -1)

\* The inputs a convert request may carry.  badFile: file.arrayBuffer()
\* rejects (or data holds no file); quality: data.quality, "none" where the
\* request names none.
ZipInput(corrupt, sh, units) ==
  [badFile |-> FALSE, corrupt |-> corrupt, shared |-> sh, units |-> units, text |-> <<>>,
   quality |-> "none"]

EpubInput(corrupt, rects, quality) ==
  [badFile |-> FALSE, corrupt |-> corrupt, shared |-> <<>>, units |-> rects, text |-> <<>>,
   quality |-> quality]

PageRect(width, height) == [width |-> width, height |-> height]

ConvertInputs(f) ==
  {[badFile |-> TRUE, corrupt |-> FALSE, shared |-> <<>>, units |-> <<>>, text |-> <<>>,
    quality |-> "none"]}
  \cup
  (CASE f = "excel" ->
          {ZipInput(TRUE, <<>>, <<>>), ZipInput(FALSE, <<>>, <<>>),
           ZipInput(FALSE, <<>>, <<Sheet(<<RowAB>>, "none")>>)}
     [] f = "pptx" ->
          {ZipInput(TRUE, <<>>, <<>>), ZipInput(FALSE, <<>>, <<>>),
           ZipInput(FALSE, <<>>, <<Slide(<<SpFlow(<<TxtA>>)>>, RelsMissing, "none")>>)}
     [] f = "word" ->
          {ZipInput(TRUE, <<>>, <<>>), ZipInput(FALSE, <<>>, <<>>),
           ZipInput(FALSE, <<>>, <<Para("Normal", <<Run(<<>>, <<97>>)>>)>>)}
     [] f = "epub" ->
          {EpubInput(TRUE, <<>>, "none"),
           EpubInput(FALSE, <<PageRect(400, 600)>>, "none"),
           EpubInput(FALSE, <<PageRect(400, 600), PageRect(0, 600)>>, "high")}
     [] OTHER ->
          {[badFile |-> FALSE, corrupt |-> FALSE, shared |-> <<>>, units |-> <<>>,
            text |-> t, quality |-> "none"] : t \in {<<>>, RtfHello}})

NoInput == [badFile |-> FALSE, corrupt |-> FALSE, shared |-> <<>>, units |-> <<>>,
            text |-> <<>>, quality |-> "none"]

\* The converter that the script of the worker of format f defines, on the
\* inputs a request may carry: whether the call raises and the pages of
\* its document, by input and by whether custom_font.otf exists
ScriptOf(f) ==
  {[input |-> x, fs |-> b,
    raised |-> Convert(f, x, b).raised, pages |-> Convert(f, x, b).pages] :
     x \in ConvertInputs(f), b \in BOOLEAN}

WorkerInit ==
  /\ wfmt \in WorkerFormats /\ script = ScriptOf(wfmt)
  /\ pyodide = "null" /\ initPromise = "none" /\ initPc = "idle"
  /\ installed = 0 /\ fontFile = FALSE /\ converterDefined = FALSE
  /\ loadCalls = 0 /\ handlers = <<>> /\ posted = <<>>

WorkerIdle ==
  /\ wfmt = "none" /\ script = {}
  /\ pyodide = "null" /\ initPromise = "none" /\ initPc = "idle"
  /\ installed = 0 /\ fontFile = FALSE /\ converterDefined = FALSE
  /\ loadCalls = 0 /\ handlers = <<>> /\ posted = <<>>

\* "if (!initPromise)": onmessage calls init() only while no promise is stored
\* A faulty guard that also calls init() while a first call is pending
NoSettledPromise == initPromise \in {"none", "pending"}

\* A faulty guard that calls init() again after a failed attempt
NoFulfilledPromise == initPromise \in {"none", "rejected"}

NoInitPromise == initPromise = "none"

\* "if (!pyodide)" of a convert request
NoPyodide == pyodide = "null"

\* self.onmessage up to its first await, for a message of the given type.
\* The id of the k-th message is k.  init() runs up to "await loadPyodide".
Receive(type, input) ==
  /\ Len(handlers) < MaxMsgs
  /\ LET id == Len(handlers) + 1
         waits == type = "init" \/ NoPyodide
         calls == waits /\ NoInitPromise
     IN  /\ handlers' = Append(handlers,
               [type |-> type, id |-> id, input |-> input,
                pc |-> IF waits THEN "awaitInit" ELSE "awaitFile",
                early |-> ~waits /\ ~converterDefined])
         /\ IF calls /\ pyodide = "null"
            THEN /\ initPromise' = "pending" /\ initPc' = "loading"
                 /\ loadCalls' = loadCalls + 1
                 /\ posted' = Append(posted, StatusMsg)
            ELSE IF calls
            THEN /\ initPromise' = "fulfilled"
                 /\ UNCHANGED <<initPc, loadCalls, posted>>
            ELSE UNCHANGED <<initPromise, initPc, loadCalls, posted>>
  /\ UNCHANGED <<wfmt, script, pyodide, installed, fontFile, converterDefined>>
  /\ UNCHANGED <<lvars, fvars>>

ReceiveInit == Receive("init", NoInput)

ReceiveConvert == \E input \in ConvertInputs(wfmt) : Receive("convert", input)

\* init() throws: the promise is rejected
InitFails ==
  /\ initPromise' = "rejected" /\ initPc' = "failed"

\* loadPyodide settles
LoadResolve ==
  /\ initPc = "loading"
  /\ pyodide' = "loaded" /\ initPc' = "installing"
  /\ posted' = Append(posted, StatusMsg)
  /\ UNCHANGED <<wfmt, script, initPromise, installed, fontFile, converterDefined, loadCalls,
                 handlers>>
  /\ UNCHANGED <<lvars, fvars>>

LoadReject ==
  /\ initPc = "loading"
  /\ InitFails
  /\ UNCHANGED <<wfmt, script, pyodide, installed, fontFile, converterDefined, loadCalls,
                 handlers, posted>>
  /\ UNCHANGED <<lvars, fvars>>

\* The tail of init(): the status message, runPython and the return
RunScript(ok) ==
  /\ posted' = Append(posted, StatusMsg)
  /\ IF ok
     THEN /\ converterDefined' = TRUE /\ initPromise' = "fulfilled" /\ initPc' = "done"
     ELSE /\ InitFails /\ UNCHANGED converterDefined

\* pyodide.loadPackage settles for the next package
InstallResolve ==
  /\ initPc = "installing"
  /\ installed' = installed + 1
  /\ IF installed + 1 < Packages(wfmt)
     THEN UNCHANGED <<initPc, initPromise, converterDefined, posted, fontFile>>
     ELSE IF DownloadsFont(wfmt)
     THEN /\ initPc' = "fetching" /\ posted' = Append(posted, StatusMsg)
          /\ UNCHANGED <<initPromise, converterDefined, fontFile>>
     ELSE /\ \E ok \in BOOLEAN : RunScript(ok)
          /\ UNCHANGED fontFile
  /\ UNCHANGED <<wfmt, script, pyodide, loadCalls, handlers>>
  /\ UNCHANGED <<lvars, fvars>>

InstallReject ==
  /\ initPc = "installing"
  /\ InitFails
  /\ UNCHANGED <<wfmt, script, pyodide, installed, fontFile, converterDefined, loadCalls,
                 handlers, posted>>
  /\ UNCHANGED <<lvars, fvars>>

\* A faulty download step in which a rejected fetch ends init()
FetchSettleFatal ==
  /\ initPc = "fetching"
  /\ \E outcome \in {"ok", "notok", "throw"} :
       IF outcome = "ok"
       THEN /\ initPc' = "fontdata"
            /\ UNCHANGED <<initPromise, converterDefined, posted>>
       ELSE IF outcome = "notok"
       THEN \E ok \in BOOLEAN : RunScript(ok)
       ELSE InitFails /\ UNCHANGED <<converterDefined, posted>>
  /\ UNCHANGED <<wfmt, script, pyodide, installed, fontFile, loadCalls, handlers>>
  /\ UNCHANGED <<lvars, fvars>>

\* fetch settles: a response that is ok, one that is not, or a rejection
FetchSettle ==
  /\ initPc = "fetching"
  /\ \E outcome \in {"ok", "notok", "throw"} :
       IF outcome = "ok"
       THEN /\ initPc' = "fontdata"
            /\ UNCHANGED <<initPromise, converterDefined, posted>>
       ELSE \E ok \in BOOLEAN : RunScript(ok)
  /\ UNCHANGED <<wfmt, script, pyodide, installed, fontFile, loadCalls, handlers>>
  /\ UNCHANGED <<lvars, fvars>>

\* response.arrayBuffer() settles; on success the font file is written
FontDataSettle ==
  /\ initPc = "fontdata"
  /\ \E got \in BOOLEAN :
       /\ fontFile' = got
       /\ \E ok \in BOOLEAN : RunScript(ok)
  /\ UNCHANGED <<wfmt, script, pyodide, installed, loadCalls, handlers>>
  /\ UNCHANGED <<lvars, fvars>>

SetPc(i, pc) == [handlers EXCEPT ![i].pc = pc]

\* A handler resumes after "await initPromise"
ResumeInit(i) ==
  /\ i \in 1..Len(handlers)
  /\ handlers[i].pc = "awaitInit"
  /\ initPromise \in {"fulfilled", "rejected"}
  /\ IF initPromise = "rejected"
     THEN /\ posted' = Append(posted, ErrorMsg(handlers[i].id))
          /\ handlers' = SetPc(i, "done")
     ELSE IF handlers[i].type = "init"
     THEN /\ posted' = Append(posted, Msg("init-complete", handlers[i].id, FALSE, -1))
          /\ handlers' = SetPc(i, "done")
     ELSE /\ handlers' = SetPc(i, "awaitFile")
          /\ UNCHANGED posted
  /\ UNCHANGED <<wfmt, script, pyodide, initPromise, initPc, installed, fontFile,
                 converterDefined, loadCalls>>
  /\ UNCHANGED <<lvars, fvars>>

\* The outcome of the conversion call of a handler: the converter is looked
\* up in pyodide.globals and called; an undefined converter raises TypeError
CallOutcome(h) ==
  IF ~converterDefined THEN [raised |-> TRUE, pages |-> 0]
  ELSE LET o == CHOOSE o \in script : o.input = h.input /\ o.fs = fontFile
       IN  [raised |-> o.raised, pages |-> o.pages]

\* A faulty answer that reports success whether the call raised or not
AnswerAlways(h, s) == Msg("convert-complete", h.id, TRUE, s.pages)

\* The terminal message of a convert handler whose call left state s
Answer(h, s) ==
  IF s.raised THEN ErrorMsg(h.id)
  ELSE Msg("convert-complete", h.id, TRUE, s.pages)


\* A convert handler resumes after "await file.arrayBuffer()" and runs to
\* its end
ResumeFile(i) ==
  /\ i \in 1..Len(handlers)
  /\ handlers[i].pc = "awaitFile"
  /\ IF handlers[i].input.badFile
     THEN posted' = Append(posted, ErrorMsg(handlers[i].id))
     ELSE posted' = posted \o <<StatusMsg, Answer(handlers[i], CallOutcome(handlers[i]))>>
  /\ handlers' = SetPc(i, "done")
  /\ UNCHANGED <<wfmt, script, pyodide, initPromise, initPc, installed, fontFile,
                 converterDefined, loadCalls>>
  /\ UNCHANGED <<lvars, fvars>>

InitProgress ==
  \/ LoadResolve
  \/ LoadReject
  \/ InstallResolve
  \/ InstallReject
  \/ FetchSettle
  \/ FontDataSettle

WorkerNext ==
  \/ ReceiveInit
  \/ ReceiveConvert
  \/ InitProgress
  \/ \E i \in 1..MaxMsgs : ResumeInit(i)
  \/ \E i \in 1..MaxMsgs : ResumeFile(i)

\* ------------------------------------------------------------------------
\* Discovery of the worksheet and slide parts of an archive
\* ------------------------------------------------------------------------
\* "xl/worksheets/sheet", "ppt/slides/slide", ".xml", "sheet", "slide"
SheetPrefix ==
  <<120, 108, 47, 119, 111, 114, 107, 115, 104, 101, 101, 116, 115, 47,
    115, 104, 101, 101, 116>>
SlidePrefix ==
  <<112, 112, 116, 47, 115, 108, 105, 100, 101, 115, 47, 115, 108, 105, 100, 101>>
XmlSuffix == <<46, 120, 109, 108>>
SheetTag == <<115, 104, 101, 101, 116>>
SlideTag == <<115, 108, 105, 100, 101>>

\* name.startswith(p), name.endswith(p)
StartsWith(name, p) == Len(name) >= Len(p) /\ SubSeq(name, 1, Len(p)) = p
EndsWith(name, p) ==
  Len(name) >= Len(p) /\ SubSeq(name, Len(name) - Len(p) + 1, Len(name)) = p

\* The longest run of digits that ends the text
RECURSIVE TrailingDigits(_)
TrailingDigits(text) ==
  IF text # <<>> /\ IsDigit(text[Len(text)])
  THEN Append(TrailingDigits(SubSeq(text, 1, Len(text) - 1)), text[Len(text)])
  ELSE <<>>

\* re.search(r'<tag>(\d+)\.xml$', name) and int(match.group(1)): the digits
\* between the last occurrence of the tag and the ".xml" that ends the name
PartNumber(name, tag) ==
  IF ~EndsWith(name, XmlSuffix) THEN [ok |-> FALSE, val |-> 0]
  ELSE LET body == SubSeq(name, 1, Len(name) - Len(XmlSuffix))
           digs == TrailingDigits(body)
           rest == SubSeq(body, 1, Len(body) - Len(digs))
       IN  IF digs # <<>> /\ EndsWith(rest, tag)
           THEN [ok |-> TRUE, val |-> DigitsValue(digs, 0)]
           ELSE [ok |-> FALSE, val |-> 0]

\* "for name in namelist()": the pairs (number, name) of the names that
\* have the prefix, end in ".xml" and match the pattern, in listing order
RECURSIVE ListParts(_, _, _)
ListParts(namelist, prefix, tag) ==
  IF namelist = <<>> THEN <<>>
  ELSE LET name == Head(namelist)
           match == PartNumber(name, tag)
       IN  (IF StartsWith(name, prefix) /\ EndsWith(name, XmlSuffix) /\ match.ok
            THEN <<<<match.val, name>>>> ELSE <<>>)
           \o ListParts(Tail(namelist), prefix, tag)

\* One step of the stable sort: e goes behind the entries whose key is not
\* larger than its own
RECURSIVE InsertByKey(_, _)
InsertByKey(sorted, e) ==
  IF sorted = <<>> THEN <<e>>
  ELSE IF e[1] < Head(sorted)[1] THEN <<e>> \o sorted
       ELSE <<Head(sorted)>> \o InsertByKey(Tail(sorted), e)

RECURSIVE SortFrom(_, _)
SortFrom(files, sorted) ==
  IF files = <<>> THEN sorted
  ELSE SortFrom(Tail(files), InsertByKey(sorted, Head(files)))

\* A faulty ordering that keeps the order of the archive's listing
KeepListingOrder(files) == files

\* files.sort(key=lambda x: x[0])
SortByKey(files) == SortFrom(files, <<>>)

\* sheet_files of convert_excel_to_pdf
sheet_files(namelist) == SortByKey(ListParts(namelist, SheetPrefix, SheetTag))

\* get_slide_files() of convert_pptx_to_pdf
get_slide_files(namelist) == SortByKey(ListParts(namelist, SlidePrefix, SlideTag))

\* ------------------------------------------------------------------------
\* Inputs of the part discovery
\* ------------------------------------------------------------------------
MaxNames == 3

\* The numbers of the numbered parts of an archive
PartNumbers == {1, 2, 10}

SheetName(n) == SheetPrefix \o Digits(n) \o XmlSuffix
SlideName(n) == SlidePrefix \o Digits(n) \o XmlSuffix

\* A part whose number is written with the full-width digit three (U+FF13),
\* which \d matches and int() reads as 3
WideName(prefix) == prefix \o <<65299>> \o XmlSuffix

\* The numbered parts an archive can hold, each with its number
NumberedParts(prefix) ==
  {<<n, prefix \o Digits(n) \o XmlSuffix>> : n \in PartNumbers}
    \cup {<<3, WideName(prefix)>>}

\* xl/worksheets/sheetA.xml, xl/worksheets/sheet.xml, xl/sheet3.xml
OtherSheetNames ==
  {SheetPrefix \o <<ChA>> \o XmlSuffix,
   SheetPrefix \o XmlSuffix,
   <<120, 108, 47>> \o SheetTag \o Digits(3) \o XmlSuffix}

\* ppt/slides/slide1.xml.rels, ppt/slides/slideLayout1.xml
OtherSlideNames ==
  {SlideName(1) \o <<46, 114, 101, 108, 115>>,
   SlidePrefix \o <<76, 97, 121, 111, 117, 116>> \o Digits(1) \o XmlSuffix}

\* ------------------------------------------------------------------------
\* Inputs of the layout cursor
\* ------------------------------------------------------------------------
MaxPages == 3

\* ------------------------------------------------------------------------
\* Inputs of the word-wrap
\* ------------------------------------------------------------------------
MaxWords == 3

\* Words: one narrow character; 20 wide characters; 20 wide characters and
\* a narrow one; 42 wide characters.  In the base font 41 wide characters
\* fill the text width exactly, and so do the second and the third word
\* with a space between them
WrapWords ==
  {<<98>>, Rep(ChWide, 20), Append(Rep(ChWide, 20), 98), Rep(ChWide, 42)}

WrapWordLists == UNION {[1..k -> WrapWords] : k \in 0..MaxWords}

\* What stands between two words, and before the first and after the last
\* Blanks between words: a space, and a run of a no-break space, a newline,
\* a tab and an ideographic space
WrapSeps == {<<ChSpace>>, <<160, ChNewline, 9, 12288>>}
WrapPads == {<<>>, <<ChSpace>>}

WrapStyles == {"Normal", "Title"}

\* The texts joined, sep between two of them
RECURSIVE JoinWith(_, _)
JoinWith(texts, sep) ==
  IF texts = <<>> THEN <<>>
  ELSE IF Len(texts) = 1 THEN texts[1]
  ELSE texts[1] \o sep \o JoinWith(Tail(texts), sep)

\* ------------------------------------------------------------------------
\* Inputs of the column widths
\* ------------------------------------------------------------------------
\* Rows as lists of cell texts, with estimated widths of 5; 50 and 30;
\* 225 and 5; 0, 5 and 250; 90
WidthRows ==
  {<<TxtA>>,
   <<Rep(97, 10), Rep(ChWide, 3)>>,
   <<Rep(97, 45), TxtB>>,
   <<<<>>, TxtB, Rep(ChWide, 25)>>,
   <<Rep(ChWide, 9)>>}

\* A row without text, which is not kept
BlankRow == <<<<>>, <<>>>>

\* The number of equal rows a worksheet begins with: the row after them is
\* the 2nd, the 50th or the 51st of the rows kept
HeadCounts == {1, xl_sample_rows - 1, xl_sample_rows}

\* The rows of a worksheet: blank rows first or not, a number of equal
\* rows, one more row or not
WidthInputs ==
  {lead \o [k \in 1..n |-> head] \o last :
     lead \in {<<>>, <<BlankRow>>}, n \in HeadCounts, head \in WidthRows,
     last \in {<<>>} \cup {<<r, BlankRow>> : r \in WidthRows}}

\* The listings of at most MaxNames different names of the pool
Listings(pool) ==
  {l \in UNION {[1..k -> pool] : k \in 0..MaxNames} :
     \A i \in 1..Len(l) : \A j \in 1..Len(l) : i < j => l[i] # l[j]}

SheetListings ==
  Listings({SheetName(n) : n \in PartNumbers} \cup {WideName(SheetPrefix)}
             \cup OtherSheetNames)
SlideListings == Listings({SlideName(n) : n \in PartNumbers} \cup OtherSlideNames)

\* ------------------------------------------------------------------------
\* Single calls of the converters' functions
\* ------------------------------------------------------------------------
\* The worksheet parts of an archive are discovered
ListSheets ==
  /\ op = "none"
  /\ \E namelist \in SheetListings :
       /\ op' = "sheet_files" /\ arg' = namelist /\ ret' = sheet_files(namelist)
  /\ UNCHANGED <<lvars, wvars>>

\* The slide parts of an archive are discovered
ListSlides ==
  /\ op = "none"
  /\ \E namelist \in SlideListings :
       /\ op' = "get_slide_files" /\ arg' = namelist
       /\ ret' = get_slide_files(namelist)
  /\ UNCHANGED <<lvars, wvars>>

\* A block of the word-processor layout: the height it asks ensure_space
\* for and the distance it moves the cursor by.  A text line of the base
\* font (lineheight 11 * 1.4), a table row, and images of height 335, 688
\* and 698 (ensure_space(height + 10), "y_position += height + 5").
Block(needed_height, advance) == [needed_height |-> needed_height, advance |-> advance]

Blocks ==
  {Block(RMul(R(HeadingSize("Normal")), Float14), RMul(R(HeadingSize("Normal")), Float14)),
   Block(R(wd_row_height), R(wd_row_height)),
   Block(R(345), R(340)),
   Block(R(max_image_height), R(max_image_height - 5)),
   Block(R(max_image_height + 10), R(max_image_height + 5))}

\* The cursor before the first call: no page yet (the state the function
\* tests for first) or the first page, as the conversion call creates it
FirstCursors == {EmptyPdf, new_page(EmptyPdf, 0)}

\* ensure_space is called for a block: at a first cursor, or where the
\* block of the call before has left the cursor
EnsureSpaceCall ==
  /\ op \in {"none", "ensure_space"}
  /\ op = "ensure_space" => ret.pages < MaxPages
  /\ \E b \in Blocks :
     \E before \in IF op = "none" THEN FirstCursors ELSE {AdvanceY(ret, arg.advance)} :
       /\ op' = "ensure_space"
       /\ arg' = [st |-> before, needed_height |-> b.needed_height,
                  advance |-> b.advance]
       /\ ret' = ensure_space(before, b.needed_height, 0)
  /\ UNCHANGED <<lvars, wvars>>

\* flush_text is called on the first page with the text of a paragraph of
\* the given style
FlushTextCall ==
  /\ op = "none"
  /\ \E words \in WrapWordLists, sep \in WrapSeps, pad \in WrapPads,
        style \in WrapStyles :
       LET text == pad \o JoinWith(words, sep) \o pad
           fontsize == HeadingSize(style)
       IN  /\ op' = "flush_text"
           /\ arg' = [text |-> text, fontsize |-> fontsize, words |-> words]
           /\ ret' = flush_text(new_page(EmptyPdf, 0), text, fontsize,
                                RMul(R(fontsize), Float14), 0, FontName(FALSE))
  /\ UNCHANGED <<lvars, wvars>>

\* The column widths of a worksheet are computed from the rows read
ColWidthsCall ==
  /\ op = "none"
  /\ \E all \in WidthInputs :
       /\ op' = "col_widths" /\ arg' = all /\ ret' = ColWidths(KeepRows(all))
  /\ UNCHANGED <<lvars, wvars>>

\* The relationship parts a slide can have: none, one that is no XML, and
\* well-formed ones whose elements have a Target or lack it
RelsInputs ==
  {RelsMissing, RelsMalformed, RelsOk, RelsPartial,
   [present |-> TRUE, wellformed |-> TRUE, entries |-> <<>>],
   [present |-> TRUE, wellformed |-> TRUE,
    entries |-> <<Rel("rId2", FALSE, <<>>), Rel("rId1", TRUE, ImageTarget)>>],
   [present |-> TRUE, wellformed |-> TRUE,
    entries |-> <<Rel("rId1", TRUE, ImageTarget), Rel("rId2", TRUE, ImagePath)>>],
   [present |-> TRUE, wellformed |-> TRUE, entries |-> <<Rel("rId1", TRUE, <<"..">>)>>]}

\* The relationships of a slide are resolved
RelationshipsCall ==
  /\ op = "none"
  /\ \E part \in RelsInputs :
       /\ op' = "get_relationships" /\ arg' = part /\ ret' = get_relationships(part)
  /\ UNCHANGED <<lvars, wvars>>

\* The extents of inline images in points: small, filling the text area,
\* wider than the text width, higher than a page, both, and heights around
\* the one for which height + 10 is more than a page holds
ImageExtents ==
  {<<100, 50>>, <<text_width, max_image_height>>, <<902, 300>>, <<100, 1396>>,
   <<600, 1800>>, <<2000, 900>>, <<10, max_image_height - 10>>,
   <<10, max_image_height - 9>>, <<1, 1>>, <<542, 100>>, <<100, 1124>>}

\* An inline image is placed: at a first cursor, or where the block of an
\* ensure_space call has left the cursor
PlaceImageCall ==
  /\ op \in {"none", "ensure_space"}
  /\ \E e \in ImageExtents :
     \E before \in IF op = "none" THEN FirstCursors ELSE {AdvanceY(ret, arg.advance)} :
       LET d == Img(Pt(e[1]), Pt(e[2]))
       IN  /\ op' = "place_image"
           /\ arg' = [st |-> before, d |-> d]
           /\ ret' = WordImage(before, d, 0, 1, 1)
  /\ UNCHANGED <<lvars, wvars>>

FuncNext ==
  \/ ListSheets
  \/ PlaceImageCall
  \/ RelationshipsCall
  \/ ListSlides
  \/ EnsureSpaceCall
  \/ FlushTextCall
  \/ ColWidthsCall

\* One conversion call, unit by unit; the worker stays idle
Init == LayoutInit /\ WorkerIdle /\ FuncIdle

Next == LayoutNext

Spec == Init /\ [][Next]_vars

\* Single calls of functions, no conversion call and no worker running
FuncSpec == Init /\ [][FuncNext]_vars

\* The worker with no conversion call of the unit-by-unit kind in progress
WorkerStart == LayoutInit /\ WorkerInit /\ FuncIdle

\* The worker under the event loop's guarantees: a settled promise's
\* continuation runs, and every awaited operation settles
WorkerSpec ==
  /\ WorkerStart
  /\ [][WorkerNext]_vars
  /\ WF_vars(InitProgress)
  /\ \A i \in 1..MaxMsgs : WF_vars(ResumeInit(i)) /\ WF_vars(ResumeFile(i))

\* ------------------------------------------------------------------------
\* Properties of one conversion call (specification Spec)
\* ------------------------------------------------------------------------
CmdIdx == 1..Len(st.cmds)

PageCmds == {k \in CmdIdx : st.cmds[k].kind = "page"}

BoxCmds == {k \in CmdIdx : st.cmds[k].kind = "textbox"}

SameRow(a, b) == a.unit = b.unit /\ a.row = b.row

\* C1: row atomicity.  In the spreadsheet and the word-processor table
\* layout all text boxes of one table row are issued on the same page, and
\* no page is created between two text boxes of one row.
C1_RowAtomicity ==
  fmt \in {"excel", "word"} =>
    LET boxes == BoxCmds
        pages == PageCmds
    IN  \A i \in boxes : \A j \in boxes :
          (i < j /\ SameRow(st.cmds[i], st.cmds[j])) =>
            /\ st.cmds[i].page = st.cmds[j].page
            /\ \A k \in pages : ~(i < k /\ k < j)

\* A worksheet of 30 rows or more has been laid out: a page was started
\* inside the sheet, right after the text boxes of one row, and the next row
\* has its two text boxes on the new page.
C1_Witness ==
  /\ fmt = "excel" /\ phase = "done" /\ result = "ok"
  /\ \E k \in PageCmds :
       /\ k > 1 /\ k + 2 <= Len(st.cmds)
       /\ st.cmds[k - 1].kind = "textbox"
       /\ st.cmds[k - 1].unit = st.cmds[k].unit
       /\ st.cmds[k + 1].kind = "textbox" /\ st.cmds[k + 2].kind = "textbox"
       /\ SameRow(st.cmds[k + 1], st.cmds[k + 2])
       /\ st.cmds[k + 1].page = st.cmds[k].page
       /\ st.cmds[k + 1].row = st.cmds[k - 1].row + 1

PageWidthOf(f) == IF f \in {"excel", "pptx"} THEN xl_page_width ELSE wd_page_width

PageHeightOf(f) == IF f \in {"excel", "pptx"} THEN xl_page_height ELSE wd_page_height

InPage(c, f) ==
  /\ RLe(R(0), c.x0) /\ RLe(c.x0, R(PageWidthOf(f)))
  /\ RLe(R(0), c.x1) /\ RLe(c.x1, R(PageWidthOf(f)))
  /\ RLe(R(0), c.y0) /\ RLe(c.y0, R(PageHeightOf(f)))
  /\ RLe(R(0), c.y1) /\ RLe(c.y1, R(PageHeightOf(f)))

\* C2: page bounds.  In the spreadsheet, presentation, word-processor and
\* rich-text conversions every text position, text-box rect and image rect
\* lies inside the page rectangle [0, width] x [0, height].
C2_PageBounds ==
  fmt \in {"excel", "pptx", "word", "rtf"} =>
    \A k \in CmdIdx : st.cmds[k].kind # "page" => InPage(st.cmds[k], fmt)

\* The rows of worksheet u that are kept ("if any(row_data)")
KeptRows(u) ==
  Len(KeepRows([k \in 1..Len(doc[u].rows) |-> ExcelRowCells(doc[u].rows[k], shared)]))

\* The content of unit u fits on one page: for a sheet the header offset
\* plus rows * row_height does not pass page_height - margin
UnitFits(u) ==
  IF fmt = "excel"
  THEN xl_margin + xl_header_gap + KeptRows(u) * row_height <= xl_page_height - xl_margin
  ELSE TRUE

\* The first backend call made for unit u is new_page
StartsFresh(u) ==
  /\ \E k \in PageCmds : st.cmds[k].unit = u
  /\ \A k \in CmdIdx :
       st.cmds[k].unit = u /\ st.cmds[k].kind # "page" =>
         \E p \in PageCmds : p < k /\ st.cmds[p].unit = u
  /\ \A k \in CmdIdx : \A j \in CmdIdx :
       st.cmds[k].unit = u /\ st.cmds[j].unit # u /\ st.cmds[j].unit # 0 =>
         st.cmds[k].page # st.cmds[j].page

\* C3: page count per structural unit.  A spreadsheet of N >= 1 worksheets
\* or a presentation of N >= 1 slides that was converted has at least N
\* pages, exactly N when every unit fits on one page, and every unit starts
\* on a fresh page of its own.
C3_PageCount ==
  (fmt \in {"excel", "pptx"} /\ phase = "done" /\ result = "ok" /\ nUnits >= 1) =>
    /\ st.pages >= nUnits
    /\ (\A u \in 1..nUnits : UnitFits(u)) => st.pages = nUnits
    /\ \A u \in 1..nUnits : StartsFresh(u)

\* Two worksheets, the first of exactly the 29 rows that fill a page, the
\* second of more: two pages for the first case would be wrong, and the
\* output has one page more than it has sheets.
C3_Witness ==
  /\ fmt = "excel" /\ phase = "done" /\ result = "ok" /\ nUnits = 2
  /\ KeptRows(1) = 29 /\ UnitFits(1)
  /\ KeptRows(2) = 30 /\ ~UnitFits(2)
  /\ st.pages = 3

\* The extents of the image a command places, in points (their ratio is
\* the ratio of the extents in EMU or pixels)
ImageInput(c) ==
  IF fmt = "word"
  THEN LET d == doc[c.unit].runs[c.row].drawings[c.col]
       IN  <<emu_to_pt(IF d.hasExtent THEN d.cx ELSE default_extent),
             emu_to_pt(IF d.hasExtent THEN d.cy ELSE default_extent)>>
  ELSE IF fmt = "pptx"
  THEN <<emu_to_pt(doc[c.unit].shapes[c.row].cx), emu_to_pt(doc[c.unit].shapes[c.row].cy)>>
  ELSE <<R(doc[c.unit].pix_width), R(doc[c.unit].pix_height)>>

ImageCmds == {k \in CmdIdx : st.cmds[k].kind = "image"}

OutW(c) == RSub(c.x1, c.x0)

OutH(c) == RSub(c.y1, c.y0)

\* The relative error up to which two lengths count as equal: 1e-9
Tolerance == RNorm(1, 1000000000)

\* a and b are equal up to the relative error Tolerance
Close(a, b) == RLe(RAbs(RSub(a, b)), RMul(Tolerance, RMax(RAbs(a), RAbs(b))))

\* a <= b up to the relative error Tolerance
NearLe(a, b) == RLe(a, b) \/ Close(a, b)

\* C4 as it is stated: aspect ratio.  Every placed image rect satisfies
\* outputWidth * inputHeight = outputHeight * inputWidth exactly, after zero,
\* one or two scale-downs.
C4_AspectRatio ==
  fmt \in {"word", "pptx", "epub"} =>
    \A k \in ImageCmds :
      RMul(OutW(st.cmds[k]), ImageInput(st.cmds[k])[2])
        = RMul(OutH(st.cmds[k]), ImageInput(st.cmds[k])[1])

\* The largest magnitude of the horizontal and of the vertical coordinates
\* of a placed rect: a corner is rounded relative to its own magnitude
CoordX(c) == RMax(RAbs(c.x0), RAbs(c.x1))

CoordY(c) == RMax(RAbs(c.y0), RAbs(c.y1))

\* The rounding a placed rect allows to the two products: the relative error
\* Tolerance of each corner, carried into outputWidth * inputHeight and
\* outputHeight * inputWidth
AspectSlack(c) ==
  RMul(Tolerance, RAdd(RMul(CoordX(c), ImageInput(c)[2]),
                       RMul(CoordY(c), ImageInput(c)[1])))

\* The two products of a placed rect are equal up to the relative error
\* Tolerance of the products themselves
AspectClose(c) ==
  Close(RMul(OutW(c), ImageInput(c)[2]), RMul(OutH(c), ImageInput(c)[1]))

\* C4, amended: aspect ratio up to the rounding of the rect's corners.  For
\* every placed image rect outputWidth * inputHeight and outputHeight *
\* inputWidth differ by at most 1e-9 * (X * inputHeight + Y * inputWidth),
\* X and Y the largest magnitudes of the rect's horizontal and vertical
\* coordinates, after zero, one or two scale-downs.
C4_AspectRatioRounded ==
  fmt \in {"word", "pptx", "epub"} =>
    \A k \in ImageCmds :
      RLe(RAbs(RSub(RMul(OutW(st.cmds[k]), ImageInput(st.cmds[k])[2]),
                    RMul(OutH(st.cmds[k]), ImageInput(st.cmds[k])[1]))),
          AspectSlack(st.cmds[k]))

\* A document image wider than the text width that is still too tall
\* after the width fit, so that both scale-downs were applied, and an image
\* so narrow after its fit that the rounding of the rect's corners shows in
\* its width: the products differ by more than 1e-9 of themselves
C4_Witness ==
  /\ fmt = "word"
  /\ \E k \in ImageCmds :
       /\ RGt(ImageInput(st.cmds[k])[1], R(text_width))
       /\ OutH(st.cmds[k]) = R(max_image_height)
       /\ RLt(OutW(st.cmds[k]), R(text_width))
  /\ \E k \in ImageCmds :
       /\ OutH(st.cmds[k]) = R(max_image_height)
       /\ ~AspectClose(st.cmds[k])

\* A call on a structurally valid input without structural units has returned
EmptyInputDone ==
  /\ phase = "done"
  /\ \/ fmt \in {"excel", "pptx", "word"} /\ nUnits = 0 /\ doc = <<>>
     \/ fmt = "rtf" /\ doc = << <<>> >>

\* C5: empty input.  A structurally valid input with zero structural units
\* (no worksheets, no slides, an empty body, empty rich text) yields exactly
\* one page without draw commands; the call does not raise.
C5_EmptyInput ==
  EmptyInputDone =>
    /\ result = "ok"
    /\ st.pages = 1
    /\ \A k \in CmdIdx : st.cmds[k].kind = "page"

\* C6: shared-string fallback.  A cell of type "s" whose value is an integer
\* index at or beyond len(shared_strings) has the raw value string as its
\* text, and the conversion does not fail.
C6_SharedFallback ==
  (fmt = "excel" /\ idx >= 1 /\ doc[idx].fail = "none") =>
    \A r \in 1..Len(doc[idx].rows) : \A c \in 1..Len(doc[idx].rows[r]) :
      LET cell == doc[idx].rows[r][c]
      IN  (cell.t = "s" /\ ParseInt(cell.v).ok /\ ParseInt(cell.v).val >= Len(shared)) =>
            /\ result # "error"
            /\ st.rcells[r][c] = cell.v

\* C8: per-unit isolation.  In the spreadsheet, presentation and
\* word-processor conversions a failure inside one structural unit does not
\* fail the call: a call on an archive that could be opened processes every
\* unit and returns output bytes.
C8_UnitIsolation ==
  (fmt \in {"excel", "pptx", "word"} /\ phase = "done") =>
    /\ result = "ok"
    /\ idx = nUnits

\* The calls that draw text: insert_text and insert_textbox
TextCmds == {k \in CmdIdx : st.cmds[k].kind \in {"text", "textbox"}}

\* The conversion of a workbook with the one worksheet [["A","B"],["1","2"]]
\* and no shared strings has returned
SheetScenarioDone ==
  /\ fmt = "excel" /\ phase = "done" /\ result = "ok"
  /\ nUnits = 1 /\ shared = <<>>
  /\ doc = <<Sheet(<<RowAB, Row12>>, "none")>>

\* C11: spreadsheet scenario.  The workbook with one worksheet of the rows
\* [["A","B"],["1","2"]] and no shared strings gives exactly one page with
\* four text draw commands, at two distinct heights and two distinct column
\* offsets.
C11_SheetScenario ==
  SheetScenarioDone =>
    LET T == TextCmds
    IN  /\ st.pages = 1
        /\ Cardinality(T) = 4
        /\ \A k \in T : st.cmds[k].page = 1
        /\ Cardinality({st.cmds[k].y0 : k \in T}) = 2
        /\ Cardinality({st.cmds[k].x0 : k \in T}) = 2

\* "Hello", newline, "World"
HelloWorldLines == <<72, 101, 108, 108, 111, ChNewline, 87, 111, 114, 108, 100>>

\* C12: rich-text scenario.  strip_rtf applied to {\rtf1 Hello\par World}
\* returns the two lines "Hello" and "World", and the conversion of that
\* input draws two text lines.
C12_RtfScenario ==
  (fmt = "rtf" /\ phase = "done" /\ doc = <<RtfHello>>) =>
    /\ ~strip_rtf(RtfHello).raised
    /\ strip_rtf(RtfHello).text = HelloWorldLines
    /\ result = "ok"
    /\ Cardinality(TextCmds) = 2

\* The backend calls that draw something
DrawCmds == {k \in CmdIdx : st.cmds[k].kind # "page"}

\* The kinds of draw command a body element of the given kind gives rise to
KindsOf(elemKind) ==
  CASE elemKind = "p" -> {"text", "image"}
    [] elemKind = "tbl" -> {"textbox"}
    [] OTHER -> {}

\* The log of a word-processor conversion is in document order: the draw
\* commands follow the body elements, each is of a kind its element gives
\* rise to, page indices do not decrease, and on one page the draw
\* positions do not move up
WordLogOrdered ==
  fmt = "word" =>
    LET D == DrawCmds
    IN  /\ \A a \in D :
              /\ st.cmds[a].unit \in 1..Len(doc)
              /\ st.cmds[a].kind \in KindsOf(doc[st.cmds[a].unit].kind)
        /\ \A a \in D : \A b \in D :
              a < b =>
                /\ st.cmds[a].unit <= st.cmds[b].unit
                /\ st.cmds[a].page <= st.cmds[b].page
                /\ st.cmds[a].page = st.cmds[b].page =>
                     RLe(st.cmds[a].y0, st.cmds[b].y0)

\* From one body element to the next the page index does not decrease, and
\* the layout cursor does not move up while the page stays the same
WordCursorStep ==
  (fmt = "word" /\ fmt' = "word") =>
    /\ st'.page >= st.page
    /\ st'.page = st.page => RLe(st.y, st'.y)

\* C13: document order.  In the word-processor conversion the draw commands
\* are emitted in body-element order, paragraphs and tables interleaved as
\* in the source; for elements i < j no draw command of i is on a later
\* page than one of j, the page index never decreases, and within one page
\* the layout cursor never decreases.
C13_DocumentOrder == []WordLogOrdered /\ [][WordCursorStep]_vars

\* A table followed by a paragraph with a tall image and a text line: the
\* table's boxes are on page 1, the image no longer fits below them and is
\* on page 2, and the text line after it follows it on page 2
C13_Witness ==
  /\ fmt = "word" /\ phase = "done" /\ result = "ok" /\ Len(doc) = 2
  /\ doc[1].kind = "tbl" /\ doc[2].kind = "p"
  /\ \E a \in DrawCmds : \E b \in DrawCmds : \E c \in DrawCmds :
       /\ a < b /\ b < c
       /\ st.cmds[a].kind = "textbox" /\ st.cmds[a].unit = 1 /\ st.cmds[a].page = 1
       /\ st.cmds[b].kind = "image" /\ st.cmds[b].unit = 2 /\ st.cmds[b].page = 2
       /\ st.cmds[c].kind = "text" /\ st.cmds[c].unit = 2 /\ st.cmds[c].page = 2
       /\ RLt(st.cmds[b].y0, st.cmds[c].y0)

\* C14: font selection.  Within one conversion every text-drawing call
\* (headers, cell text, paragraph lines, slide numbers, rich-text lines and
\* error markers) uses the active font: the custom font when the fallback
\* font file is staged, the base font otherwise.
C14_FontSelection ==
  fmt \in {"excel", "pptx", "word", "rtf"} =>
    \A k \in TextCmds : st.cmds[k].font = FontName(staged)

\* col_widths of worksheet u, from the rows read for it
SheetWidths(u) ==
  ColWidths(KeepRows([k \in 1..Len(doc[u].rows) |->
                        ExcelRowCells(doc[u].rows[k], shared)]))

\* The sum of the first n entries of a list of widths
RECURSIVE WidthSum(_, _)
WidthSum(widths, n) == IF n = 0 THEN 0 ELSE WidthSum(widths, n - 1) + widths[n]

\* x plus n times the width w, added one column after the other
RECURSIVE PlusWidths(_, _, _)
PlusWidths(x, w, n) == IF n = 0 THEN x ELSE RAdd(PlusWidths(x, w, n - 1), w)

\* The width of every column of a document table with cols grid columns:
\* the text width in equal shares, 0 for a table without grid columns
TableColumnWidth(cols) == IF cols = 0 THEN R(0) ELSE RNorm(text_width, cols)

\* The text box c starts 2 points after the offset and ends 2 points before
\* the offset plus the column's width
BoxAt(c, offset, width) ==
  /\ c.x0 = RAdd(offset, R(2))
  /\ c.x1 = RSub(RAdd(offset, width), R(2))

MarkerCmds(u) ==
  {k \in CmdIdx : /\ st.cmds[k].kind = "text" /\ st.cmds[k].unit = u
                  /\ st.cmds[k].color = "red"}

\* The page that is current at command k: the number of pages created so far
CurrentPage(k) == Cardinality({p \in PageCmds : p < k})

\* C22: error marker.  When the processing of a worksheet or a slide raises,
\* at whatever point of the unit, exactly one red text "Error: <message>" is
\* drawn for the unit, at the margin on the page that is current, and drawing
\* it does not raise: the call goes on.
C22_ErrorMarker ==
  fmt \in {"excel", "pptx"} =>
    \A u \in 1..idx :
      doc[u].fail # "none" =>
        /\ Cardinality(MarkerCmds(u)) = 1
        /\ \A k \in MarkerCmds(u) :
             /\ st.cmds[k].text = ErrorPrefix \o doc[u].msg
             /\ st.cmds[k].x0 = R(xl_margin)
             /\ st.cmds[k].page = CurrentPage(k)
        /\ idx = u => ~st.raised

\* The lines of the text extracted from the rich-text input
ExtractedLines == SplitLines(strip_rtf(doc[1]).text, <<>>)

\* The text commands drawn on page p
TextOnPage(p) == {k \in TextCmds : st.cmds[k].page = p}

\* The baseline of line slot k of a page
SlotBaseline(k) == RAdd(R(rtf_margin + rtf_fontsize), RMul(R(k), rtf_lineheight))

\* C28: rich-text pagination.  The converted rich text has one line slot per
\* extracted line, at most max_lines_per_page slots per page, every text line
\* drawn at the margin with the baseline of a slot, which is never below the
\* bottom margin; L >= 1 lines give ceil(L / max_lines_per_page) pages, and a
\* line of white space only draws nothing.
C28_RtfPagination ==
  (fmt = "rtf" /\ phase = "done") =>
    LET L == Len(ExtractedLines)
    IN  /\ result = "ok"
        /\ st.pages = (L + max_lines_per_page - 1) \div max_lines_per_page
        /\ Cardinality(TextCmds)
             = Cardinality({k \in 1..L : Strip(ExtractedLines[k]) # <<>>})
        /\ \A p \in 1..st.pages : Cardinality(TextOnPage(p)) <= max_lines_per_page
        /\ \A k \in TextCmds :
             /\ st.cmds[k].x0 = R(rtf_margin)
             /\ \E slot \in 0..(max_lines_per_page - 1) :
                  st.cmds[k].y0 = SlotBaseline(slot)
             /\ RLe(st.cmds[k].y0, R(rtf_page_height - rtf_margin))

\* The entries of the shared-string table
TableEntries == {shared[k] : k \in 1..Len(shared)}

\* C29: shared-string bounds check.  A cell of type "s" whose value is the
\* integer i has entry i of the shared-string table as its text when
\* 0 <= i < len(table); for every other integer, the negative ones included,
\* its text is no entry of the table.
C29_SharedBounds ==
  (fmt = "excel" /\ idx >= 1 /\ doc[idx].fail = "none") =>
    \A r \in 1..Len(doc[idx].rows) : \A c \in 1..Len(doc[idx].rows[r]) :
      LET cell == doc[idx].rows[r][c]
          i == ParseInt(cell.v).val
      IN  (cell.t = "s" /\ ParseInt(cell.v).ok) =>
            IF 0 <= i /\ i < Len(shared)
            THEN st.rcells[r][c] = shared[i + 1]
            ELSE st.rcells[r][c] \notin TableEntries

\* ------------------------------------------------------------------------
\* Properties of the worker (specification WorkerSpec)
\* ------------------------------------------------------------------------
HandlerIdx == 1..Len(handlers)

PostedIdx == 1..Len(posted)

\* The messages posted so far that answer request id for good
Terminal(id) ==
  {k \in PostedIdx : posted[k].id = id /\ posted[k].type \in {"convert-complete", "error"}}

IsCorruptRequest(h) == h.type = "convert" /\ ~h.input.badFile /\ h.input.corrupt

\* C7: corrupt archive.  A convert request whose buffer is no zip archive,
\* sent to the spreadsheet, presentation or word-processor worker, is
\* answered with an "error" message carrying its id and never with
\* "convert-complete"; the conversion call has created no page.
C7_CorruptArchive ==
  wfmt \in {"excel", "pptx", "word"} =>
    \A i \in HandlerIdx :
      IsCorruptRequest(handlers[i]) =>
        /\ \A k \in PostedIdx :
             posted[k].id = handlers[i].id => posted[k].type # "convert-complete"
        /\ handlers[i].pc = "done" =>
             /\ \E k \in PostedIdx : posted[k] = ErrorMsg(handlers[i].id)
             /\ Convert(wfmt, handlers[i].input, fontFile).raised
             /\ Convert(wfmt, handlers[i].input, fontFile).pages = 0

\* The presentation worker, initialized, has run the conversion call on a
\* corrupt archive and has answered the request
C7_Witness ==
  /\ wfmt = "pptx" /\ converterDefined
  /\ \E i \in HandlerIdx :
       /\ IsCorruptRequest(handlers[i]) /\ handlers[i].pc = "done"
       /\ posted[Len(posted)] = ErrorMsg(handlers[i].id)
       /\ posted[Len(posted) - 1] = StatusMsg

\* What is true of the messages posted so far
ProtocolSafe ==
  /\ \A i \in HandlerIdx :
       handlers[i].type = "convert" =>
         /\ Cardinality(Terminal(handlers[i].id)) <= 1
         /\ handlers[i].pc = "done" <=> Cardinality(Terminal(handlers[i].id)) = 1
  /\ \A k \in PostedIdx :
       /\ posted[k].type = "status" => posted[k].id = NoId /\ ~posted[k].hasResult
       /\ posted[k].hasResult =>
            /\ posted[k].type = "convert-complete"
            /\ posted[k].id \in HandlerIdx
            /\ ~Convert(wfmt, handlers[posted[k].id].input, fontFile).raised
            /\ posted[k].pages = Convert(wfmt, handlers[posted[k].id].input, fontFile).pages

\* C9: job protocol.  Every convert request is eventually answered by
\* exactly one terminal message carrying its id, "convert-complete" with
\* the result of the whole call or "error"; status messages carry no id
\* and no result.
C9_JobProtocol ==
  /\ []ProtocolSafe
  /\ \A i \in 1..MaxMsgs :
       (Len(handlers) >= i /\ handlers[i].type = "convert")
         ~> (Cardinality(Terminal(i)) = 1)

\* Two convert requests were received before the runtime was loaded and
\* waited for the initialization; both are answered, one with its result
\* and one with an error
C9_Witness ==
  /\ Len(handlers) = 2 /\ initPromise = "fulfilled"
  /\ \A i \in HandlerIdx :
       handlers[i].type = "convert" /\ handlers[i].pc = "done" /\ ~handlers[i].early
  /\ \E k \in Terminal(1) : posted[k].type = "convert-complete"
  /\ \E k \in Terminal(2) : posted[k].type = "error"

\* C10: lazy one-time initialization.  loadPyodide is called at most once,
\* and not before the first message has arrived.
C10_LoadOnce ==
  /\ loadCalls <= 1
  /\ handlers = <<>> => loadCalls = 0

\* An init and a convert message have arrived while the runtime is still
\* loading: it has been loaded once, and both handlers wait for it
C10_Witness ==
  /\ Len(handlers) = 2 /\ initPc = "loading" /\ loadCalls = 1
  /\ \E i \in HandlerIdx : handlers[i].type = "init"
  /\ \E i \in HandlerIdx : handlers[i].type = "convert"
  /\ \A i \in HandlerIdx : handlers[i].pc = "awaitInit"

\* ------------------------------------------------------------------------
\* Properties of single function calls (specification FuncSpec)
\* ------------------------------------------------------------------------
\* The names of a listing
Listed == {arg[k] : k \in 1..Len(arg)}

\* The discovered parts are the numbered parts of the listing, each once,
\* in strictly ascending order of their numbers
PartsOrdered(prefix) ==
  /\ \A i \in 1..Len(ret) : \A j \in 1..Len(ret) : i < j => ret[i][1] < ret[j][1]
  /\ Len(ret) = Cardinality({p \in NumberedParts(prefix) : p[2] \in Listed})
  /\ \A p \in NumberedParts(prefix) :
       p[2] \in Listed => \E i \in 1..Len(ret) : ret[i] = p

\* C15: unit ordering.  Worksheet parts and slide parts are rendered in
\* ascending order of the number in their file name, whatever the order of
\* the archive's listing; part 2 comes before part 10, and a name that does
\* not match the numeric pattern is not rendered.
C15_UnitOrdering ==
  /\ op = "sheet_files" => PartsOrdered(SheetPrefix)
  /\ op = "get_slide_files" => PartsOrdered(SlidePrefix)

\* The archive lists sheet10.xml, then sheetA.xml, then sheet2.xml: sheet2 is
\* rendered first, sheet10 second, sheetA not at all
C15_Witness ==
  /\ op = "sheet_files"
  /\ arg = <<SheetName(10), SheetPrefix \o <<ChA>> \o XmlSuffix, SheetName(2)>>
  /\ ret = <<<<2, SheetName(2)>>, <<10, SheetName(10)>>>>

\* The call of ensure_space has started a page
StartedPage == ret.pages = arg.st.pages + 1

\* The height asked for exceeds the usable height of a page
Oversized == RGt(arg.needed_height, R(wd_page_height - 2 * wd_margin))

\* C16: pagination rule.  ensure_space(h) with h <= page_height - 2*margin
\* starts a new page, with y reset to margin, exactly when no page exists
\* yet or y + h > page_height - margin before the call; otherwise it
\* changes nothing; on return y + h <= page_height - margin.
C16_PaginationRule ==
  (op = "ensure_space" /\ ~Oversized) =>
    /\ StartedPage <=>
         \/ arg.st.page = 0
         \/ RGt(RAdd(arg.st.y, arg.needed_height), R(wd_page_height - wd_margin))
    /\ StartedPage => ret = new_page(arg.st, 0)
    /\ ~StartedPage => ret = arg.st
    /\ RLe(RAdd(ret.y, arg.needed_height), R(wd_page_height - wd_margin))

\* A text line is asked for where it no longer fits above the bottom
\* margin, below other blocks of the page: a page was started
C16_Witness ==
  /\ op = "ensure_space" /\ ~Oversized
  /\ arg.st.page >= 1 /\ RGt(arg.st.y, R(wd_margin))
  /\ RGt(RAdd(arg.st.y, arg.needed_height), R(wd_page_height - wd_margin))
  /\ RLe(arg.st.y, R(wd_page_height - wd_margin))
  /\ StartedPage /\ ret.y = R(wd_margin)

\* C17: oversized unit.  ensure_space(h) with h > page_height - 2*margin
\* starts exactly one page when the cursor is below the top of its page and
\* none when it is at the top; no call of ensure_space starts more than one
\* page.
C17_OversizedUnit ==
  op = "ensure_space" =>
    /\ ret.pages \in {arg.st.pages, arg.st.pages + 1}
    /\ (Oversized /\ arg.st.page # 0) =>
         /\ StartedPage <=> RGt(arg.st.y, R(wd_margin))
         /\ StartedPage => ret = new_page(arg.st, 0)
         /\ ~StartedPage => ret = arg.st

\* A block higher than a page was asked for at the top of a page that
\* exists: no page was started, and the block passes the bottom margin
C17_Witness ==
  /\ op = "ensure_space" /\ Oversized
  /\ arg.st.page >= 1 /\ arg.st.y = R(wd_margin)
  /\ ret = arg.st
  /\ RGt(RAdd(ret.y, arg.needed_height), R(wd_page_height - wd_margin))

\* The lines flush_text has drawn, in the order of the calls
EmittedLines ==
  LET texts == SelectSeq(ret.cmds, LAMBDA c : c.kind = "text")
  IN  [k \in 1..Len(texts) |-> texts[k].text]

\* C18: the word-wrap preserves content.  The lines emitted for a text,
\* joined with single spaces in emission order, are the whitespace-separated
\* words of the text joined with single spaces: no word is lost, duplicated,
\* split or reordered; no emitted line is empty.
C18_WrapPreserves ==
  op = "flush_text" =>
    /\ JoinWith(EmittedLines, <<ChSpace>>) = JoinWith(arg.words, <<ChSpace>>)
    /\ \A k \in 1..Len(EmittedLines) : EmittedLines[k] # <<>>

\* A text of three words with irregular whitespace around and between them
\* was wrapped into two lines, the first holding two words
C18_Witness ==
  /\ op = "flush_text" /\ Len(arg.words) = 3
  /\ arg.text # JoinWith(arg.words, <<ChSpace>>)
  /\ Len(EmittedLines) = 2
  /\ EmittedLines[1] = arg.words[1] \o <<ChSpace>> \o arg.words[2]
  /\ EmittedLines[2] = arg.words[3]

\* Twice the estimated width of a line: fontsize per character above code
\* point 255, half of it for any other character, spaces included
LineWidth2(line, fontsize) ==
  2 * fontsize * Cardinality({i \in 1..Len(line) : line[i] > 255})
    + fontsize * Cardinality({i \in 1..Len(line) : line[i] <= 255})

\* The line holds two words or more
ManyWords(line) == \E i \in 1..Len(line) : line[i] = ChSpace

\* C19: width bound of the word-wrap.  Every emitted line of two or more
\* words has an estimated width of at most the text width; only a line that
\* consists of a single word may be wider.
C19_WrapWidth ==
  op = "flush_text" =>
    \A k \in 1..Len(EmittedLines) :
      ManyWords(EmittedLines[k]) =>
        LineWidth2(EmittedLines[k], arg.fontsize) <= 2 * text_width

\* A first line of two words that fills the text width exactly, and a
\* second line of one word that is wider than the text width
C19_Witness ==
  /\ op = "flush_text" /\ Len(EmittedLines) = 2
  /\ ManyWords(EmittedLines[1])
  /\ LineWidth2(EmittedLines[1], arg.fontsize) = 2 * text_width
  /\ ~ManyWords(EmittedLines[2])
  /\ LineWidth2(EmittedLines[2], arg.fontsize) > 2 * text_width

\* The rows of the worksheet that hold some text, in order
TextRows == SelectSeq(arg, LAMBDA r : \E i \in 1..Len(r) : r[i] # <<>>)

\* The estimated width of a cell text: 10 per character above code point
\* 255, 5 per other character
CellWidth(text) ==
  10 * Cardinality({i \in 1..Len(text) : text[i] > 255})
    + 5 * Cardinality({i \in 1..Len(text) : text[i] <= 255})

\* The largest estimated width in column i of the first n rows with text
SampledWidth(i, n) ==
  LET W == {CellWidth(TextRows[k][i]) :
              k \in {k \in 1..Len(TextRows) : k <= n /\ i <= Len(TextRows[k])}}
  IN  IF W = {} THEN 0 ELSE CHOOSE w \in W : \A v \in W : v <= w

Clamp(w, lo, hi) == IF w < lo THEN lo ELSE IF w > hi THEN hi ELSE w

\* C20: spreadsheet column widths.  There is one width per column of the
\* worksheet; each lies in [40, 200] and is the largest estimated width of
\* the column's cells in the first 50 rows with text, clamped to that range.
\* Rows after the 50th change no width, and a column that only such rows
\* have gets the width 40.
C20_ColumnWidths ==
  op = "col_widths" =>
    /\ \A k \in 1..Len(TextRows) : Len(TextRows[k]) <= Len(ret)
    /\ TextRows # <<>> => \E k \in 1..Len(TextRows) : Len(TextRows[k]) = Len(ret)
    /\ \A i \in 1..Len(ret) :
         /\ ret[i] >= 40 /\ ret[i] <= 200
         /\ ret[i] = Clamp(SampledWidth(i, 50), 40, 200)
         /\ (\A k \in 1..Len(TextRows) : k <= 50 => i > Len(TextRows[k])) => ret[i] = 40

\* A worksheet of 51 rows with text: the first fifty have one narrow cell,
\* the 51st has a cell of width 225 and a second column; both widths are 40
C20_Witness ==
  /\ op = "col_widths" /\ Len(TextRows) = 51 /\ Len(arg) = 53
  /\ Len(TextRows[51]) = 2 /\ CellWidth(TextRows[51][1]) = 225
  /\ \A k \in 1..50 : Len(TextRows[k]) = 1
  /\ ret = <<40, 40>>

\* The relationship part given to the resolver is malformed: it is no XML,
\* or one of its Relationship elements has no Target
MalformedRels ==
  \/ arg.present /\ ~arg.wellformed
  \/ arg.present /\ \E k \in 1..Len(arg.entries) : ~arg.entries[k].target.has

\* C23: malformed relationships.  For a relationship part that is missing,
\* that is no XML, or that has a Relationship element without Target, also
\* after valid elements, the resolver returns the empty map: no entry of the
\* part is in it.
C23_MalformedRels ==
  (op = "get_relationships" /\ (~arg.present \/ MalformedRels)) =>
    DOMAIN ret = {}

\* The commands the call has added to those of the cursor it started from
AddedCmds == SubSeq(ret.cmds, Len(arg.st.cmds) + 1, Len(ret.cmds))

\* The rect of command c lies in the text area of a word-processor page
InTextArea(c) ==
  /\ RLe(R(wd_margin), c.x0) /\ RLe(c.x1, R(wd_page_width - wd_margin))
  /\ RLe(R(wd_margin), c.y0) /\ RLe(c.y1, R(wd_page_height - wd_margin))

\* The rect of command c lies in the text area up to the relative error
\* Tolerance of its coordinates
NearTextArea(c) ==
  /\ NearLe(R(wd_margin), c.x0) /\ NearLe(c.x1, R(wd_page_width - wd_margin))
  /\ NearLe(R(wd_margin), c.y0) /\ NearLe(c.y1, R(wd_page_height - wd_margin))

\* C24, amended: word-processor image placement up to rounding.  An inline
\* image with positive extents is placed, from any cursor position, by one
\* insert_image whose rect lies inside the text area and is centred in the
\* text column (x0 + x1 is the page width), both up to a relative error of
\* 1e-9 of the coordinates, on the page that is current.
C24_ImagePlacementRounded ==
  op = "place_image" =>
    LET images == SelectSeq(AddedCmds, LAMBDA c : c.kind = "image")
    IN  /\ Len(images) = 1
        /\ \A k \in 1..Len(images) :
             LET c == images[k]
             IN  /\ NearTextArea(c)
                 /\ RLt(c.x0, c.x1) /\ RLt(c.y0, c.y1)
                 /\ c.page = ret.pages
                 /\ Close(RAdd(c.x0, c.x1), R(wd_page_width))

\* C24 as it is stated: word-processor image placement.  An inline image
\* with positive extents is placed, from any cursor position, by one
\* insert_image whose rect lies exactly inside the text area, on the page that
\* is current, with equal gaps to the left and to the right of the text
\* column.
C24_ImagePlacement ==
  op = "place_image" =>
    LET images == SelectSeq(AddedCmds, LAMBDA c : c.kind = "image")
    IN  /\ Len(images) = 1
        /\ \A k \in 1..Len(images) :
             LET c == images[k]
             IN  /\ InTextArea(c)
                 /\ RLt(c.x0, c.x1) /\ RLt(c.y0, c.y1)
                 /\ c.page = ret.pages
                 /\ RSub(c.x0, R(wd_margin)) = RSub(R(wd_page_width - wd_margin), c.x1)

\* An image of 600 x 1800 points is placed from a cursor below the top of a
\* page: both fits apply, a page is started and the image fills its height
C24_Witness ==
  /\ op = "place_image"
  /\ arg.d.cx = Pt(600) /\ arg.d.cy = Pt(1800)
  /\ arg.st.pages >= 1 /\ RGt(arg.st.y, R(wd_margin))
  /\ ret.pages = arg.st.pages + 1
  /\ \E k \in 1..Len(AddedCmds) :
       /\ AddedCmds[k].kind = "image"
       /\ AddedCmds[k].y0 = R(wd_margin)
       /\ AddedCmds[k].y1 = R(wd_page_height - wd_margin)
       /\ RGt(AddedCmds[k].x0, R(wd_margin))

\* Handler i looks the converter up and calls it in this step: it resumes
\* after "await file.arrayBuffer()" with a file that could be read
CallsConverter(i) ==
  /\ i <= Len(handlers)
  /\ handlers[i].pc = "awaitFile" /\ handlers'[i].pc = "done"
  /\ ~handlers[i].input.badFile

\* init() has run to its end: the runtime is loaded, the packages are
\* installed and the script has defined the converter
InitFinished ==
  /\ pyodide = "loaded" /\ installed = Packages(wfmt)
  /\ converterDefined /\ initPromise = "fulfilled"

\* C25: no conversion before initialization completes.  Whatever the order
\* of 'init' and 'convert' messages, a handler looks the converter up and
\* calls it only when the initialization has finished.
C25_InitBeforeConvert ==
  [][\A i \in 1..MaxMsgs : CallsConverter(i) => InitFinished]_vars

\* The initialization attempt has failed
InitFailed == initPromise = "rejected"

\* The messages posted with the id of request i
AnswersTo(i) == {k \in PostedIdx : posted[k].id = i}

\* C26: initialization failure is permanent.  Once the initialization has
\* failed, at the runtime load, a package install or the script, it stays
\* failed and nothing starts it again; no request is answered with anything
\* but 'error', and every request received gets an 'error' with its id.
C26_InitFailurePermanent ==
  /\ [][InitFailed =>
          /\ InitFailed' /\ loadCalls' = loadCalls /\ initPc' = initPc
          /\ installed' = installed /\ converterDefined' = converterDefined]_vars
  /\ [](InitFailed => \A i \in HandlerIdx : \A k \in AnswersTo(i) :
                        posted[k].type = "error")
  /\ \A i \in 1..MaxMsgs :
       (InitFailed /\ Len(handlers) >= i)
         ~> (\E k \in AnswersTo(i) : posted[k].type = "error")

\* The initialization has failed after the runtime was loaded; an 'init'
\* request and a 'convert' request that did not wait for the initialization
\* have both been answered with an error, and the runtime was loaded once
C26_Witness ==
  /\ InitFailed /\ pyodide = "loaded" /\ loadCalls = 1
  /\ Len(handlers) = 2
  /\ handlers[1].type = "init" /\ handlers[1].pc = "done"
  /\ handlers[2].type = "convert" /\ handlers[2].pc = "done" /\ handlers[2].early
  /\ ~handlers[2].input.badFile
  /\ \A i \in HandlerIdx : \E k \in AnswersTo(i) : posted[k].type = "error"

\* What request i was answered with: the type of its terminal message and
\* the pages of the document it carries
Outcome(i) == {<<posted[k].type, posted[k].pages>> : k \in Terminal(i)}

\* C27: conversion isolation.  Two convert requests of one worker that carry
\* the same input get the same result, whatever else the worker was asked
\* to do before, between or during them.
C27_ConversionIsolation ==
  \A i \in HandlerIdx : \A j \in HandlerIdx :
    ( /\ handlers[i].type = "convert" /\ handlers[j].type = "convert"
      /\ handlers[i].pc = "done" /\ handlers[j].pc = "done"
      /\ handlers[i].input = handlers[j].input )
      => Outcome(i) = Outcome(j)

\* The awaits of init() that belong to the font download
FontStage == {"fetching", "fontdata"}

\* The download has settled in this step, in whatever way
DownloadSettles == initPc \in FontStage /\ initPc' \notin FontStage

\* Request i is a conversion that ran the converter after an initialization
\* that staged no font file, on an input the converter accepts
ConvertedWithoutFont(i) ==
  /\ handlers[i].type = "convert" /\ handlers[i].pc = "done"
  /\ ~handlers[i].early /\ ~handlers[i].input.badFile
  /\ initPromise = "fulfilled" /\ ~fontFile
  /\ ~Convert(wfmt, handlers[i].input, TRUE).raised

\* C30: font unavailability is never fatal.  However the font download
\* settles, init() goes on to the converter script, and fails only when the
\* script does; a finished initialization answers every 'init' request with
\* 'init-complete', and a conversion that follows it without a staged font
\* file succeeds.
C30_FontNeverFatal ==
  /\ [][DownloadSettles =>
          /\ posted' = Append(posted, StatusMsg)
          /\ initPromise' = "fulfilled" <=> converterDefined']_vars
  /\ \A i \in 1..MaxMsgs :
       (initPromise = "fulfilled" /\ Len(handlers) >= i /\ handlers[i].type = "init")
         ~> (\E k \in AnswersTo(i) : posted[k].type = "init-complete")
  /\ [](\A i \in HandlerIdx :
          ConvertedWithoutFont(i) =>
            \E k \in AnswersTo(i) : /\ posted[k].type = "convert-complete"
                                    /\ posted[k].pages >= 1)

\* A worker that downloads a font has finished its initialization without
\* a font file; its 'init' request was answered 'init-complete' and the
\* conversion after it 'convert-complete'
C30_Witness ==
  /\ DownloadsFont(wfmt) /\ initPromise = "fulfilled" /\ ~fontFile
  /\ Len(handlers) = 2
  /\ handlers[1].type = "init" /\ ConvertedWithoutFont(2)
  /\ \E k \in AnswersTo(1) : posted[k].type = "init-complete"
  /\ \E k \in AnswersTo(2) : posted[k].type = "convert-complete"

====
